---- MODULE Spec2Model ----
(***************************************************************************)
(* Order-book reconstruction, feed client life cycle, portfolio ledger and *)
(* simulation ticker of the Polymarket live dashboard.                     *)
(*                                                                         *)
(* Numbers are JavaScript numbers modelled as exact rationals <<n, d>> in  *)
(* lowest terms with d > 0, extended with NaN = <<0,0>>, +Infinity =       *)
(* <<1,0>> and -Infinity = <<-1,0>>.  IEEE rounding is abstracted away;    *)
(* NaN and division by zero are kept.                                      *)
(***************************************************************************)
EXTENDS Integers, Sequences, FiniteSets, TLC

(* ------------------------------ bounds --------------------------------- *)
\* prices on the wire are 0.1 .. MaxPrice/10
MaxPrice == 2
\* sizes on the wire are 0 .. MaxSize
MaxSize == 2
\* a book snapshot carries at most MaxLevels levels (both sides together)
MaxLevels == 2
\* a price_change frame carries at most MaxChanges elements
MaxChanges == 1
\* number of fills the ledger is driven through
MaxFills == 3
\* number of evaluation ticks that are followed
MaxTicks == 16
\* number of start() and stop() calls made on the simulator
MaxCalls == 3
\* number of strategies added to a simulator that is driven on its own
MaxStrategies == 2
\* evaluation ticks of the simulator followed on its own
MaxEngineTicks == 3
\* trade sizes 1 .. MaxRequest are priced against the order book
MaxRequest == 4
\* a multiplexed price_change frame carries at most MaxMux elements
MaxMux == 2
\* number of last_trade_price frames followed
MaxTradeFrames == 3
\* a PriceHistory has a capacity of at most MaxCapacity points and is given
\* at most MaxAdds points
MaxCapacity == 3
MaxAdds == 4

(* ------------------------- JavaScript numbers -------------------------- *)
NaN == <<0, 0>>
Zero == <<0, 1>>
One == <<1, 1>>
Half == <<1, 2>>

Abs(x) == IF x < 0 THEN -x ELSE x

Sgn(x) == IF x < 0 THEN -1 ELSE IF x > 0 THEN 1 ELSE 0

RECURSIVE GCD(_, _)
GCD(a, b) == IF b = 0 THEN a ELSE GCD(b, a % b)

\* canonical form of the quotient n/d (d = 0 gives NaN or an infinity)
Norm(n, d) ==
  IF d = 0 THEN <<Sgn(n), 0>>
  ELSE LET s == IF d < 0 THEN -1 ELSE 1
           g == GCD(Abs(n), Abs(d))
       IN <<(s * n) \div g, (s * d) \div g>>

Num(k) == <<k, 1>>

IsNaN(x) == x = NaN

\* a + b
Add(a, b) ==
  IF a[2] = 0 /\ b[2] = 0 THEN (IF a = b THEN a ELSE NaN)
  ELSE Norm(a[1] * b[2] + b[1] * a[2], a[2] * b[2])

Neg(a) == <<-a[1], a[2]>>

\* a + b where a - b is meant
AddForSub(a, b) == Add(a, b)

\* a - b
Sub(a, b) == Add(a, Neg(b))

\* a * b
Mul(a, b) == Norm(a[1] * b[1], a[2] * b[2])

\* a * b where a / b is meant
MulForDiv(a, b) == Mul(a, b)

\* a / b   (x/0 is an infinity, 0/0 is NaN)
Div(a, b) == Mul(a, Norm(b[2], b[1]))

\* a < b   (false when either is NaN)
Lt(a, b) ==
  /\ ~IsNaN(a)
  /\ ~IsNaN(b)
  /\ IF a[2] = 0 /\ b[2] = 0 THEN a[1] < b[1] ELSE a[1] * b[2] < b[1] * a[2]

\* a === b
StrictEq(a, b) == ~IsNaN(a) /\ ~IsNaN(b) /\ a = b

\* a <= b, a >= b, a > b
Le(a, b) == Lt(a, b) \/ StrictEq(a, b)

\* a <= b where a >= b is meant
LeForGe(a, b) == Le(a, b)

Ge(a, b) == Le(b, a)
Gt(a, b) == Lt(b, a)

\* truthiness of a number: 0 and NaN are falsy
Truthy(x) == ~IsNaN(x) /\ x[1] # 0

\* x || d
OrElse(x, d) == IF Truthy(x) THEN x ELSE d

\* Math.min(a, b)
MathMin(a, b) == IF IsNaN(a) \/ IsNaN(b) THEN NaN ELSE IF Lt(b, a) THEN b ELSE a

(* --------------------------- wire numerals ----------------------------- *)
\* A numeric string of a frame is <<k, e>>: the decimal numeral of k with
\* the last e digits behind the point (<<40, 2>> is "0.40", <<4, 1>> is "0.4",
\* <<2, 0>> is "2"); e = -1 is text that is not a numeral.
RECURSIVE Pow10(_)
Pow10(e) == IF e = 0 THEN 1 ELSE 10 * Pow10(e - 1)

parseFloat(s) == IF s[2] < 0 THEN NaN ELSE Norm(s[1], Pow10(s[2]))

\* parseInt: the digits before the point
parseInt(s) == IF s[2] < 0 THEN NaN ELSE Num(s[1] \div Pow10(s[2]))

BadText == <<0, -1>>

\* well-formed price strings "0.1", "0.2", .. and size strings "0", "1", ..
PriceStrs == {<<k, 1>> : k \in 1..MaxPrice}

SizeStrs == {<<k, 0>> : k \in 0..MaxSize}

TokenId == "tok"
OtherId == "other"
Assets == {TokenId, OtherId}

(* ------------------------------ OrderBook ------------------------------ *)
\* an OrderSummary of a book frame: price and size as strings; the sizes of
\* a snapshot are "0" and "1", larger sizes arrive as price changes
OrderSummaries == [price : PriceStrs, size : {<<k, 0>> : k \in 0..1}]

\* the OrderBookLevel parsed from an OrderSummary
ParseLevel(o) == [price |-> parseFloat(o.price), size |-> parseFloat(o.size)]

ParseLevels(list) == [i \in 1..Len(list) |-> ParseLevel(list[i])]

\* the sort comparator is negative: a is placed before b
ComesBefore(a, b, isBid) ==
  IF isBid THEN Lt(b.price, a.price) ELSE Lt(a.price, b.price)

\* x placed behind every element of the sorted s that does not come after it
InsertSorted(s, x, isBid) ==
  LET later == {i \in 1..Len(s) : ComesBefore(x, s[i], isBid)}
      pos == IF later = {} THEN Len(s) + 1
             ELSE CHOOSE i \in later : \A j \in later : i <= j
  IN SubSeq(s, 1, pos - 1) \o <<x>> \o SubSeq(s, pos, Len(s))

\* Array.prototype.sort with a consistent comparator: a stable sort
RECURSIVE StableSort(_, _)
StableSort(levels, isBid) ==
  IF levels = <<>> THEN <<>>
  ELSE InsertSorted(StableSort(SubSeq(levels, 1, Len(levels) - 1), isBid),
                    levels[Len(levels)], isBid)

\* every order Array.prototype.sort may leave the levels in: with a NaN price
\* the comparator is inconsistent and the order is implementation-defined
SortOutcomes(levels, isBid) ==
  IF \E i \in 1..Len(levels) : IsNaN(levels[i].price)
  THEN {[i \in 1..Len(levels) |-> levels[f[i]]] :
          f \in Permutations(1..Len(levels))}
  ELSE {StableSort(levels, isBid)}

\* levels.findIndex((l) => l.price === price), 0 for -1
FindIndex(levels, price) ==
  LET hits == {i \in 1..Len(levels) : StrictEq(levels[i].price, price)}
  IN IF hits = {} THEN 0 ELSE CHOOSE i \in hits : \A j \in hits : i <= j

RemoveAt(s, i) == SubSeq(s, 1, i - 1) \o SubSeq(s, i + 1, Len(s))

\* the levels of updateLevel before its trailing sort
UpdateLevelEdit(levels, price, size) ==
  LET index == FindIndex(levels, price)
  IN IF StrictEq(size, Zero)
     THEN (IF index # 0 THEN RemoveAt(levels, index) ELSE levels)
     ELSE (IF index # 0 THEN [levels EXCEPT ![index].size = size]
           ELSE Append(levels, [price |-> price, size |-> size]))

\* updateLevel without its trailing sort
updateLevelUnsorted(levels, price, size, isBid) ==
  {UpdateLevelEdit(levels, price, size)}

\* updateLevel: the side after the edit and the sort
updateLevel(levels, price, size, isBid) ==
  SortOutcomes(UpdateLevelEdit(levels, price, size), isBid)

\* an element of price_changes; isNull marks a JSON null element
Changes ==
  [isNull : {FALSE}, asset_id : Assets, price : PriceStrs, size : SizeStrs,
   side : {"BUY", "SELL"}]

NullChange ==
  [isNull |-> TRUE, asset_id |-> OtherId, price |-> BadText, size |-> BadText,
   side |-> "BUY"]

\* the loop of handlePriceChange without the comparison of asset_id
RECURSIVE ApplyChangesAnyAsset(_, _, _)
ApplyChangesAnyAsset(bids, asks, changes) ==
  IF changes = <<>> THEN {[bids |-> bids, asks |-> asks, threw |-> FALSE]}
  ELSE LET c == Head(changes)
       IN IF c.isNull THEN {[bids |-> bids, asks |-> asks, threw |-> TRUE]}
          ELSE IF c.side = "BUY"
          THEN UNION {ApplyChangesAnyAsset(nb, asks, Tail(changes)) :
                        nb \in updateLevel(bids, parseFloat(c.price),
                                           parseFloat(c.size), TRUE)}
          ELSE UNION {ApplyChangesAnyAsset(bids, na, Tail(changes)) :
                        na \in updateLevel(asks, parseFloat(c.price),
                                           parseFloat(c.size), FALSE)}

\* the loop of handlePriceChange over the elements in list order; threw is
\* the TypeError of reading asset_id of a null element, which ends the loop
RECURSIVE ApplyChanges(_, _, _)
ApplyChanges(bids, asks, changes) ==
  IF changes = <<>> THEN {[bids |-> bids, asks |-> asks, threw |-> FALSE]}
  ELSE LET c == Head(changes)
       IN IF c.isNull THEN {[bids |-> bids, asks |-> asks, threw |-> TRUE]}
          ELSE IF c.asset_id # TokenId THEN ApplyChanges(bids, asks, Tail(changes))
          ELSE IF c.side = "BUY"
          THEN UNION {ApplyChanges(nb, asks, Tail(changes)) :
                        nb \in updateLevel(bids, parseFloat(c.price),
                                           parseFloat(c.size), TRUE)}
          ELSE UNION {ApplyChanges(bids, na, Tail(changes)) :
                        na \in updateLevel(asks, parseFloat(c.price),
                                           parseFloat(c.size), FALSE)}

\* the books handleBookMessage may build from the two lists of a frame
BookOutcomes(bidData, askData, timestamp) ==
  {[bids |-> b, asks |-> a, lastUpdate |-> parseInt(timestamp)] :
     b \in SortOutcomes(ParseLevels(bidData), TRUE),
     a \in SortOutcomes(ParseLevels(askData), FALSE)}

EmptyBook == [bids |-> <<>>, asks |-> <<>>, lastUpdate |-> Zero]

(* --------------------------- PortfolioTracker -------------------------- *)
EmptyMap == [t \in {} |-> Zero]

EmptyLedger ==
  [positions |-> EmptyMap, totalCost |-> Zero, currentValue |-> Zero,
   unrealizedPnL |-> Zero, realizedPnL |-> Zero, currentPrices |-> EmptyMap]

\* outcome.toUpperCase() on the outcome labels in use
toUpperCase(o) ==
  CASE o = "Yes" -> "YES"
    [] o = "No" -> "NO"
    [] OTHER -> o

RECURSIVE SumOver(_, _)
SumOver(f, keys) ==
  IF keys = {} THEN Zero
  ELSE LET k == CHOOSE x \in keys : TRUE
       IN Add(f[k], SumOver(f, keys \ {k}))

\* this.currentPrices.get(tokenId) || 0
PriceOf(L, tokenId) ==
  IF tokenId \in DOMAIN L.currentPrices
  THEN OrElse(L.currentPrices[tokenId], Zero) ELSE Zero

\* recalculateValue without the recomputation of totalCost
recalculateValueKeepTotal(L) ==
  LET held == DOMAIN L.positions
      cv == SumOver([t \in held |-> Mul(PriceOf(L, t), L.positions[t].shares)],
                    held)
  IN [L EXCEPT !.currentValue = cv, !.unrealizedPnL = Sub(cv, L.totalCost)]

\* recalculateValue: currentValue and totalCost summed over the positions
recalculateValue(L) ==
  LET held == DOMAIN L.positions
      cv == SumOver([t \in held |-> Mul(PriceOf(L, t), L.positions[t].shares)],
                    held)
      tc == SumOver([t \in held |-> L.positions[t].totalCost], held)
  IN [L EXCEPT !.currentValue = cv, !.totalCost = tc,
               !.unrealizedPnL = Sub(cv, tc)]

\* setPrice that stores the price and leaves the values alone
setPriceNoRecalc(L, tokenId, price) ==
  [L EXCEPT !.currentPrices =
     [t \in DOMAIN L.currentPrices \cup {tokenId} |->
        IF t = tokenId THEN price ELSE L.currentPrices[t]]]

\* setPrice
setPrice(L, tokenId, price) ==
  recalculateValue(
    [L EXCEPT !.currentPrices =
       [t \in DOMAIN L.currentPrices \cup {tokenId} |->
          IF t = tokenId THEN price ELSE L.currentPrices[t]]])

\* a map with key k bound to v
MapSet(m, k, v) == [t \in DOMAIN m \cup {k} |-> IF t = k THEN v ELSE m[t]]

\* a map without key k
MapDelete(m, k) == [t \in DOMAIN m \ {k} |-> m[t]]

\* the BUY and SELL branches of addTrade, before recalculateValue
addTradeEdit(L, tokenId, outcome, side, price, size, timestamp) ==
  LET has == tokenId \in DOMAIN L.positions
      existing == L.positions[tokenId]
  IN IF side = "BUY"
     THEN LET tradeCost == Mul(price, size)
              pos == IF has
                     THEN LET totalCost == Add(existing.totalCost, tradeCost)
                              totalShares == Add(existing.shares, size)
                          IN [existing EXCEPT
                                !.averagePrice = Div(totalCost, totalShares),
                                !.shares = totalShares,
                                !.totalCost = totalCost,
                                !.lastPurchaseTime = timestamp]
                     ELSE [tokenId |-> tokenId, outcome |-> outcome,
                           side |-> toUpperCase(outcome), shares |-> size, averagePrice |-> price,
                           totalCost |-> tradeCost,
                           firstPurchaseTime |-> timestamp,
                           lastPurchaseTime |-> timestamp]
          IN [L EXCEPT !.positions = MapSet(L.positions, tokenId, pos),
                       !.totalCost = Add(L.totalCost, tradeCost)]
     ELSE IF has /\ Ge(existing.shares, size)
          THEN LET saleValue == Mul(price, size)
                   costBasis == Mul(existing.averagePrice, size)
                   realizedPnL == Sub(saleValue, costBasis)
                   shares == Sub(existing.shares, size)
                   pos == [existing EXCEPT
                             !.shares = shares,
                             !.totalCost = Sub(existing.totalCost, costBasis)]
               IN [L EXCEPT
                     !.positions = IF StrictEq(shares, Zero)
                                   THEN MapDelete(L.positions, tokenId)
                                   ELSE MapSet(L.positions, tokenId, pos),
                     !.totalCost = Sub(L.totalCost, costBasis),
                     !.realizedPnL = Add(L.realizedPnL, realizedPnL)]
          ELSE L

\* addTrade
addTrade(L, tokenId, outcome, side, price, size, timestamp) ==
  recalculateValue(addTradeEdit(L, tokenId, outcome, side, price, size, timestamp))

\* clear
clear(L) ==
  [L EXCEPT !.positions = EmptyMap, !.totalCost = Zero, !.currentValue = Zero,
            !.unrealizedPnL = Zero, !.realizedPnL = Zero]

\* getSnapshot at Date.now() = t: the numbers are copied, the positions are
\* the Position objects of the ledger collected into a new array
getSnapshot(L, t) ==
  [positions |-> L.positions, totalCost |-> L.totalCost,
   currentValue |-> L.currentValue, unrealizedPnL |-> L.unrealizedPnL,
   realizedPnL |-> L.realizedPnL, timestamp |-> t]

\* a returned snapshot after calls took the ledger from L to L2: a Position
\* object the ledger still holds shows the position as it is now; one that a
\* SELL of size deleted (or clear dropped, with size 0) keeps what the SELL
\* wrote to it before the delete, and is no longer written to
Retained(snap, L, L2, size) ==
  IF snap = <<>> THEN <<>>
  ELSE LET s == snap[1]
           positions ==
             [t \in DOMAIN s.seen.positions |->
                IF t \notin s.live THEN s.seen.positions[t]
                ELSE IF t \in DOMAIN L2.positions THEN L2.positions[t]
                ELSE [L.positions[t] EXCEPT
                        !.shares = Sub(@, size),
                        !.totalCost = Sub(@, Mul(L.positions[t].averagePrice, size))]]
       IN <<[s EXCEPT !.seen.positions = positions,
                      !.live = s.live \cap DOMAIN L2.positions]>>

(* -------------------------- StrategySimulator -------------------------- *)
\* evaluationIntervalMs of the simulator built by main()
EvaluationIntervalMs == 1000
\* intervalSeconds default of PollBuyStrategy
DefaultIntervalSeconds == 15
\* capacity of the simulatedTrades buffer
MaxSimulatedTrades == 1000
\* capacity of the trades buffer of the client
TradeCapacity == 100

\* Date.now() when main() builds the simulator
StartTime == 100 * EvaluationIntervalMs

MarketName == "Market"
Outcome == "Yes"

\* the PollBuyStrategy main() adds to the simulator
PollBuyOfMain ==
  [name |-> "PollBuy", enabled |-> TRUE, kind |-> "PollBuy",
   intervalSeconds |-> 15, buySize |-> One, lastExecutionTime |-> 0,
   executionCount |-> 0, targetTokenId |-> <<TokenId>>,
   initialized |-> 0, cleanedUp |-> 0, lastFire |-> <<>>]

\* levels[0]?.price, with undefined as a falsy number
FirstPrice(levels) == IF levels = <<>> THEN NaN ELSE levels[1].price

\* the price updateMarket marks the portfolio with
MarketPrice(ob) ==
  LET bestBid == OrElse(FirstPrice(ob.bids), Zero)
      bestAsk == OrElse(FirstPrice(ob.asks), One)
  IN IF Len(ob.bids) > 0 /\ Len(ob.asks) > 0 THEN Div(Add(bestBid, bestAsk), Num(2))
     ELSE IF Len(ob.asks) > 0 THEN bestAsk
     ELSE IF Len(ob.bids) > 0 THEN bestBid
     ELSE Half

\* updateMarket that leaves the context it holds alone
MarketContextKept(ctx, ob, t) == ctx

\* the context updateMarket leaves (ctx is <<>> for null)
MarketContext(ctx, ob, t) ==
  IF ctx = <<>> THEN <<>>
  ELSE <<[ctx[1] EXCEPT !.currentPrice = OrElse(FirstPrice(ob.asks), One),
                        !.bestBid = OrElse(FirstPrice(ob.bids), Zero),
                        !.bestAsk = OrElse(FirstPrice(ob.asks), One),
                        !.timestamp = t]>>

\* the context main() starts the simulator with
InitialContext(ob, t) ==
  [tokenId |-> TokenId, marketName |-> MarketName, outcome |-> Outcome,
   currentPrice |-> OrElse(FirstPrice(ob.asks), One),
   bestBid |-> OrElse(FirstPrice(ob.bids), Zero),
   bestAsk |-> OrElse(FirstPrice(ob.asks), One), timestamp |-> t]

\* PollBuyStrategy.initialize
initialize(st, ctx, t) ==
  [st EXCEPT !.lastExecutionTime = t, !.executionCount = 0,
             !.targetTokenId = IF st.targetTokenId = <<>> THEN <<ctx.tokenId>>
                               ELSE st.targetTokenId]

\* strategy.initialize(context) by the class of the strategy: PollBuyStrategy
\* overrides it, the other strategies inherit the empty BaseStrategy method;
\* initialized counts the calls
initializeOf(st, ctx, t) ==
  LET done == IF st.kind = "PollBuy" THEN initialize(st, ctx, t) ELSE st
  IN [done EXCEPT !.initialized = st.initialized + 1]

\* start: initialize on every enabled strategy
InitializeAll(sts, ctx, t) ==
  [i \in 1..Len(sts) |->
     IF sts[i].enabled THEN initializeOf(sts[i], ctx, t) ELSE sts[i]]

\* stop: cleanup (the empty BaseStrategy method) on every strategy; cleanedUp
\* counts the calls
CleanupAll(sts) ==
  [i \in 1..Len(sts) |-> [sts[i] EXCEPT !.cleanedUp = sts[i].cleanedUp + 1]]

\* PollBuyStrategy.evaluate at Date.now() = t: the strategy afterwards and
\* the trade intent (<<>> for shouldExecute false); lastFire records the time
\* of the last evaluation that returned an intent (<<>>: none yet)
evaluate(st, ctx, t) ==
  LET intervalMs == (IF st.intervalSeconds # 0 THEN st.intervalSeconds
                     ELSE DefaultIntervalSeconds) * 1000
  IN IF st.enabled /\ t - st.lastExecutionTime >= intervalMs
     THEN [strategy |-> [st EXCEPT !.lastExecutionTime = t,
                                   !.executionCount = st.executionCount + 1,
                                   !.lastFire = <<t>>],
           trade |-> <<[side |-> "BUY", size |-> OrElse(st.buySize, One),
                        price |-> <<>>, tokenId |-> st.targetTokenId]>>]
     ELSE [strategy |-> st, trade |-> <<>>]

\* the loop of calculateExecutionPrice taking every level whole
RECURSIVE WalkLevelsWhole(_, _, _)
WalkLevelsWhole(levels, remainingSize, totalCost) ==
  IF levels = <<>> \/ Le(remainingSize, Zero)
  THEN [remainingSize |-> remainingSize, totalCost |-> totalCost]
  ELSE LET level == Head(levels)
       IN WalkLevelsWhole(Tail(levels), Sub(remainingSize, level.size),
                          Add(totalCost, Mul(level.size, level.price)))

\* the loop of calculateExecutionPrice over the sorted levels
RECURSIVE WalkLevels(_, _, _)
WalkLevels(levels, remainingSize, totalCost) ==
  IF levels = <<>> \/ Le(remainingSize, Zero)
  THEN [remainingSize |-> remainingSize, totalCost |-> totalCost]
  ELSE LET level == Head(levels)
           fillSize == MathMin(remainingSize, level.size)
       IN WalkLevels(Tail(levels), Sub(remainingSize, fillSize),
                     Add(totalCost, Mul(fillSize, level.price)))

\* calculateExecutionPrice that leaves what the levels cannot fill unpriced
calculateExecutionPriceNoRemainder(book, ctx, side, size) ==
  IF book = <<>> THEN {[averagePrice |-> Half, canFill |-> FALSE]}
  ELSE LET levels == IF side = "BUY" THEN book[1].asks ELSE book[1].bids
       IN {LET w == WalkLevels(sorted, size, Zero)
           IN [averagePrice |-> IF Gt(size, Zero) THEN Div(w.totalCost, size)
                                ELSE Zero,
               canFill |-> StrictEq(w.remainingSize, Zero) \/ Len(levels) > 0] :
             sorted \in SortOutcomes(levels, side # "BUY")}

\* calculateExecutionPrice: book is <<>> for null or <<the order book>>
calculateExecutionPrice(book, ctx, side, size) ==
  IF book = <<>>
  THEN (IF ctx # <<>>
        THEN {[averagePrice |->
                 IF side = "BUY" THEN OrElse(ctx[1].bestAsk, ctx[1].currentPrice)
                 ELSE OrElse(ctx[1].bestBid, ctx[1].currentPrice),
               canFill |-> TRUE]}
        ELSE {[averagePrice |-> Half, canFill |-> FALSE]})
  ELSE LET levels == IF side = "BUY" THEN book[1].asks ELSE book[1].bids
           bestPrice == IF side = "BUY" THEN OrElse(FirstPrice(book[1].asks), One)
                        ELSE OrElse(FirstPrice(book[1].bids), Zero)
       IN {LET w == WalkLevels(sorted, size, Zero)
               total == IF Gt(w.remainingSize, Zero)
                        THEN Add(w.totalCost, Mul(w.remainingSize, bestPrice))
                        ELSE w.totalCost
           IN [averagePrice |-> IF Gt(size, Zero) THEN Div(total, size) ELSE Zero,
               canFill |-> StrictEq(w.remainingSize, Zero) \/ Len(levels) > 0] :
             sorted \in SortOutcomes(levels, side # "BUY")}

\* array.unshift(x) without the slice to the capacity
UnshiftUncapped(buf, x, cap) == <<x>> \o buf

\* array.unshift(x) followed by the slice to the capacity
Unshift(buf, x, cap) ==
  LET all == <<x>> \o buf IN IF Len(all) > cap THEN SubSeq(all, 1, cap) ELSE all

\* the strategy executeTrade notifies: the first one with the name (0: none)
NotifiedStrategy(sts, strategyName) ==
  LET named == {i \in 1..Len(sts) : sts[i].name = strategyName}
  IN IF named = {} THEN 0 ELSE CHOOSE i \in named : \A j \in named : i <= j

\* onTradeExecuted of the notified strategy throws
FillHandlerThrows(sts, strategyName) ==
  LET n == NotifiedStrategy(sts, strategyName)
  IN n # 0 /\ sts[n].kind = "ThrowsOnFill"

\* executeTrade on S = [strategies, ledger, simulatedTrades, fills, used,
\* evaluated]; env = [ctx, book, now] is what the tick reads.  When
\* onTradeExecuted throws, the trade has reached the ledger and is not stored
executeTrade(S, env, strategyName, trade) ==
  IF env.ctx = <<>> THEN {S}
  ELSE LET tradeTokenId == IF trade.tokenId # <<>> THEN trade.tokenId[1]
                           ELSE env.ctx[1].tokenId
           prices == IF trade.price # <<>> THEN {trade.price[1]}
                     ELSE {e.averagePrice :
                             e \in calculateExecutionPrice(env.book, env.ctx,
                                                           trade.side, trade.size)}
       IN {[S EXCEPT
              !.ledger = addTrade(S.ledger, tradeTokenId, env.ctx[1].outcome,
                                  trade.side, executionPrice, trade.size, env.now),
              !.simulatedTrades =
                 IF FillHandlerThrows(S.strategies, strategyName)
                 THEN S.simulatedTrades
                 ELSE
                 Unshift(S.simulatedTrades,
                         [timestamp |-> env.now, tokenId |-> tradeTokenId,
                          side |-> trade.side, price |-> executionPrice,
                          size |-> trade.size,
                          notional |-> Mul(executionPrice, trade.size),
                          strategyName |-> strategyName],
                         MaxSimulatedTrades),
              !.fills = S.fills + 1,
              !.used = IF trade.price # <<>> THEN S.used ELSE env.book] :
             executionPrice \in prices}

\* evaluate of a strategy that sells: when its rate limit has elapsed it
\* returns a SELL intent of its size, whatever the simulator holds
evaluateSell(st, ctx, t) ==
  LET r == evaluate(st, ctx, t)
  IN IF r.trade = <<>> THEN r
     ELSE [r EXCEPT !.trade = <<[r.trade[1] EXCEPT !.side = "SELL"]>>]

\* strategy.evaluate(context) by the class of the strategy: a "Throws"
\* strategy throws (<<>>), a "Sells" strategy returns SELL intents, the
\* others evaluate as PollBuyStrategy does
evaluateOf(st, ctx, t) ==
  IF st.kind = "Throws" THEN <<>>
  ELSE IF st.kind = "Sells" THEN <<evaluateSell(st, ctx, t)>>
  ELSE <<evaluate(st, ctx, t)>>

\* the loop of evaluateStrategies ended by the first strategy that throws
RECURSIVE EvaluateFromAbort(_, _, _)
EvaluateFromAbort(S, env, i) ==
  IF i > Len(S.strategies) THEN {S}
  ELSE IF ~S.strategies[i].enabled THEN EvaluateFromAbort(S, env, i + 1)
  ELSE LET ev == evaluateOf(S.strategies[i], env.ctx[1], env.now)
           S0 == [S EXCEPT !.evaluated = Append(S.evaluated, i)]
       IN IF ev = <<>> THEN {S0}
          ELSE IF ev[1].trade = <<>>
          THEN EvaluateFromAbort([S0 EXCEPT !.strategies[i] = ev[1].strategy],
                                 env, i + 1)
          ELSE UNION {IF FillHandlerThrows(S.strategies, S.strategies[i].name)
                      THEN {S2} ELSE EvaluateFromAbort(S2, env, i + 1) :
                        S2 \in executeTrade([S0 EXCEPT !.strategies[i] = ev[1].strategy],
                                            env, S.strategies[i].name,
                                            ev[1].trade[1])}

\* the loop of evaluateStrategies from strategy i on; what a strategy throws
\* is caught inside the loop, which goes on with the next strategy
RECURSIVE EvaluateFrom(_, _, _)
EvaluateFrom(S, env, i) ==
  IF i > Len(S.strategies) THEN {S}
  ELSE IF ~S.strategies[i].enabled THEN EvaluateFrom(S, env, i + 1)
  ELSE LET ev == evaluateOf(S.strategies[i], env.ctx[1], env.now)
           S0 == [S EXCEPT !.evaluated = Append(S.evaluated, i)]
       IN IF ev = <<>> THEN EvaluateFrom(S0, env, i + 1)
          ELSE LET S1 == [S0 EXCEPT !.strategies[i] = ev[1].strategy]
               IN IF ev[1].trade = <<>> THEN EvaluateFrom(S1, env, i + 1)
                  ELSE UNION {EvaluateFrom(S2, env, i + 1) :
                                S2 \in executeTrade(S1, env, S.strategies[i].name,
                                                    ev[1].trade[1])}

\* evaluateStrategies
evaluateStrategies(S, env) == IF env.ctx = <<>> THEN {S} ELSE EvaluateFrom(S, env, 1)

(* ------------------------------- state --------------------------------- *)
\* PolymarketWebSocketClient.  Sockets are the WebSocket objects the client
\* created: sock[s] is "free" (not created, or its close event delivered),
\* "connecting", "open", "closing" (close() called on an open socket) or
\* "aborting" (close() called while connecting).  ws is 0 for null.  pings
\* and timers are the live setInterval / setTimeout timers, pingInterval and
\* reconnectTimeout the handles the client holds (0 for null).
VARIABLES ws, sock, pingInterval, reconnectTimeout, pings, timers,
          shouldReconnect, trades, orderBook
\* what the last step did: the connected flag the message handler was called
\* with ("none" if it was not called), the frame sent, the calls disconnect()
\* made in order, the frame onMessage was given (<<>> if it did not run), and
\* the handler that ran
VARIABLES notified, sent, discOps, frame, lastOp
\* PortfolioTracker, and the number of addTrade calls so far
VARIABLES ledger, fills
\* StrategySimulator and main(): currentOrderBook is "null" or "ref", the
\* reference to the client's orderBook object that notifyUpdate passed
VARIABLES currentContext, currentOrderBook, evaluationInterval,
          simulatedTrades, strategies, initialContextCreated, now, ticks
\* the live setInterval timers of the simulator (handle -> the time its next
\* callback is due; evaluationInterval is the handle the simulator holds, 0
\* for null), the number of start() and stop() calls made, whether the last
\* of them was stop(), and the strategies the last tick called evaluate on
VARIABLES tickers, calls, stopped, evaluated
\* the PortfolioSnapshot a caller of getSnapshot holds (<<>>: none): what it
\* held when it was returned (taken), what it holds now (seen), and the
\* instruments whose Position object in it is still the one in the ledger
VARIABLES snapshot
\* the order book after the last frame whose handler ran to its end, and the
\* order book the last tick computed its fills from (<<>> if it computed none)
VARIABLES published, tickBook
\* the connection status the dashboard's status bar shows: the connected flag
\* of the last ui.update ("none" before the first)
VARIABLES statusBar
\* PriceHistory: its points, oldest first, and its capacity; added is every
\* point add was given, in the order of the calls
VARIABLES history, maxSize, added

connVars == <<ws, sock, pingInterval, reconnectTimeout, pings, timers,
              shouldReconnect>>
feedVars == <<trades, orderBook, published>>
handlerVars == <<ledger, currentOrderBook, currentContext, strategies,
                 evaluationInterval, initialContextCreated, tickers, calls,
                 stopped, snapshot, statusBar>>
tickVars == <<simulatedTrades, now, ticks, fills, tickBook, evaluated>>
obsVars == <<notified, sent, discOps, frame, lastOp>>
histVars == <<history, maxSize, added>>
vars == <<connVars, feedVars, handlerVars, tickVars, obsVars, histVars>>

\* new PriceHistory(): maxSize = 1000
DefaultMaxSize == 1000

\* number of WebSocket objects alive at once
NumSockets == 2
Socks == 1..NumSockets

\* the state after construction with the strategies sts added
InitOf(sts) ==
  /\ ws = 0
  /\ sock = [s \in Socks |-> "free"]
  /\ pingInterval = 0
  /\ reconnectTimeout = 0
  /\ pings = {}
  /\ timers = {}
  /\ shouldReconnect = TRUE
  /\ trades = <<>>
  /\ orderBook = EmptyBook
  /\ notified = "none"
  /\ sent = "none"
  /\ discOps = <<>>
  /\ frame = <<>>
  /\ lastOp = "init"
  /\ ledger = EmptyLedger
  /\ fills = 0
  /\ currentContext = <<>>
  /\ currentOrderBook = "null"
  /\ evaluationInterval = 0
  /\ simulatedTrades = <<>>
  /\ strategies = sts
  /\ initialContextCreated = FALSE
  /\ now = StartTime
  /\ ticks = 0
  /\ published = EmptyBook
  /\ tickBook = <<>>
  /\ tickers = EmptyMap
  /\ calls = 0
  /\ stopped = FALSE
  /\ evaluated = <<>>
  /\ snapshot = <<>>
  /\ statusBar = "none"
  /\ history = <<>>
  /\ maxSize = DefaultMaxSize
  /\ added = <<>>

\* main(): one PollBuyStrategy
Init == InitOf(<<PollBuyOfMain>>)

\* setInterval(callback, evaluationIntervalMs) at time t, returning handle id
setInterval(tk, id, t) ==
  [j \in DOMAIN tk \cup {id} |-> IF j = id THEN t + EvaluationIntervalMs ELSE tk[j]]

\* clearInterval(id)
clearInterval(tk, id) == [j \in DOMAIN tk \ {id} |-> tk[j]]

(* ------------------- main(): the message handler ----------------------- *)
\* notifyUpdate(connected) with this.orderBook = ob: the handler main() gave
\* the client runs updateMarket and, on the first book with both sides,
\* start
Notify(connected, ob) ==
  LET startNow == ~initialContextCreated /\ Len(ob.bids) > 0 /\ Len(ob.asks) > 0
      ctx == InitialContext(ob, now)
  IN /\ notified' = connected
     /\ statusBar' = connected
     /\ currentOrderBook' = "ref"
     /\ ledger' = setPrice(ledger, TokenId, MarketPrice(ob))
     /\ currentContext' = IF startNow THEN <<ctx>>
                          ELSE MarketContext(currentContext, ob, now)
     /\ strategies' = IF startNow THEN InitializeAll(strategies, ctx, now)
                      ELSE strategies
     /\ evaluationInterval' = IF startNow THEN calls + 1 ELSE evaluationInterval
     /\ tickers' = IF startNow THEN setInterval(tickers, calls + 1, now)
                   ELSE tickers
     /\ calls' = IF startNow THEN calls + 1 ELSE calls
     /\ stopped' = (stopped /\ ~startNow)
     /\ initialContextCreated' = (initialContextCreated \/ startNow)
     /\ UNCHANGED snapshot

\* a handler that returns without calling notifyUpdate
NoNotify == notified' = "none" /\ UNCHANGED handlerVars

(* ----------------------- PolymarketWebSocketClient --------------------- *)
\* the body of connect(): a new WebSocket in the first free slot
ConnectBody ==
  LET free == {s \in Socks : sock[s] = "free"}
      s == CHOOSE x \in free : \A y \in free : x <= y
  IN /\ free # {}
     /\ ws' = s
     /\ sock' = [sock EXCEPT ![s] = "connecting"]

\* main() calls connect() once, after building the client
Connect ==
  /\ lastOp = "init"
  /\ ConnectBody
  /\ UNCHANGED <<pingInterval, reconnectTimeout, pings, timers, shouldReconnect>>
  /\ NoNotify
  /\ sent' = "none" /\ discOps' = <<>> /\ frame' = <<>> /\ lastOp' = "connect"
  /\ UNCHANGED <<feedVars, histVars, tickVars>>

\* the reconnect timer t fires: connect()
ReconnectTimer(t) ==
  /\ t \in timers
  /\ timers' = timers \ {t}
  /\ ConnectBody
  /\ UNCHANGED <<pingInterval, reconnectTimeout, pings, shouldReconnect>>
  /\ NoNotify
  /\ sent' = "none" /\ discOps' = <<>> /\ frame' = <<>> /\ lastOp' = "timer"
  /\ UNCHANGED <<feedVars, histVars, tickVars>>

\* onOpen without its call of notifyUpdate
OnOpenSilent(s) ==
  /\ sock[s] = "connecting"
  /\ sock' = [sock EXCEPT ![s] = "open"]
  /\ IF ws # 0 /\ sock'[ws] = "connecting"
     THEN /\ UNCHANGED <<pingInterval, pings>>
          /\ sent' = "none"
     ELSE /\ sent' = IF ws # 0 /\ sock'[ws] = "open" THEN "subscribe" ELSE "none"
          /\ pingInterval' = s
          /\ pings' = pings \cup {s}
  /\ NoNotify
  /\ UNCHANGED <<ws, reconnectTimeout, timers, shouldReconnect>>
  /\ discOps' = <<>> /\ frame' = <<>> /\ lastOp' = "open"
  /\ UNCHANGED <<feedVars, histVars, tickVars>>

\* the open event of socket s: onOpen
OnOpen(s) ==
  /\ sock[s] = "connecting"
  /\ sock' = [sock EXCEPT ![s] = "open"]
  /\ IF ws # 0 /\ sock'[ws] = "connecting"
     THEN \* send on a socket that is still connecting throws
          /\ UNCHANGED <<pingInterval, pings>>
          /\ NoNotify
          /\ sent' = "none"
     ELSE /\ sent' = IF ws # 0 /\ sock'[ws] = "open" THEN "subscribe" ELSE "none"
          /\ pingInterval' = s
          /\ pings' = pings \cup {s}
          /\ Notify("true", orderBook)
  /\ UNCHANGED <<ws, reconnectTimeout, timers, shouldReconnect>>
  /\ discOps' = <<>> /\ frame' = <<>> /\ lastOp' = "open"
  /\ UNCHANGED <<feedVars, histVars, tickVars>>

\* a keepalive ticker whose callback sends nothing
PingTickSilent(p) ==
  /\ p \in pings
  /\ sent' = "none"
  /\ NoNotify
  /\ discOps' = <<>> /\ frame' = <<>> /\ lastOp' = "ping"
  /\ UNCHANGED <<connVars, feedVars, histVars, tickVars>>

\* the keepalive ticker p fires
PingTick(p) ==
  /\ p \in pings
  /\ sent' = IF ws # 0 /\ sock[ws] = "open" THEN "PING" ELSE "none"
  /\ NoNotify
  /\ discOps' = <<>> /\ frame' = <<>> /\ lastOp' = "ping"
  /\ UNCHANGED <<connVars, feedVars, histVars, tickVars>>

\* onClose without the call of handleReconnect
OnCloseNoReconnect(s) ==
  /\ sock[s] \in {"connecting", "open", "closing", "aborting"}
  /\ sock' = [sock EXCEPT ![s] = "free"]
  /\ pings' = IF pingInterval # 0 THEN pings \ {pingInterval} ELSE pings
  /\ pingInterval' = 0
  /\ Notify("false", orderBook)
  /\ UNCHANGED <<ws, shouldReconnect, reconnectTimeout, timers>>
  /\ sent' = "none" /\ discOps' = <<>> /\ frame' = <<>> /\ lastOp' = "close"
  /\ UNCHANGED <<feedVars, histVars, tickVars>>

\* onClose of a client that drops its book and its trades with the socket
OnCloseFresh(s) ==
  /\ sock[s] \in {"connecting", "open", "closing", "aborting"}
  /\ sock' = [sock EXCEPT ![s] = "free"]
  /\ pings' = IF pingInterval # 0 THEN pings \ {pingInterval} ELSE pings
  /\ pingInterval' = 0
  /\ orderBook' = EmptyBook /\ trades' = <<>> /\ published' = EmptyBook
  /\ Notify("false", EmptyBook)
  /\ IF shouldReconnect
     THEN reconnectTimeout' = s /\ timers' = timers \cup {s}
     ELSE UNCHANGED <<reconnectTimeout, timers>>
  /\ UNCHANGED <<ws, shouldReconnect>>
  /\ sent' = "none" /\ discOps' = <<>> /\ frame' = <<>> /\ lastOp' = "close"
  /\ UNCHANGED <<histVars, tickVars>>

\* the close event of socket s (after its error event, if any; onError does
\* nothing): onClose
OnClose(s) ==
  /\ sock[s] \in {"connecting", "open", "closing", "aborting"}
  /\ sock' = [sock EXCEPT ![s] = "free"]
  /\ pings' = IF pingInterval # 0 THEN pings \ {pingInterval} ELSE pings
  /\ pingInterval' = 0
  /\ Notify("false", orderBook)
  /\ IF shouldReconnect
     THEN reconnectTimeout' = s /\ timers' = timers \cup {s}
     ELSE UNCHANGED <<reconnectTimeout, timers>>
  /\ UNCHANGED <<ws, shouldReconnect>>
  /\ sent' = "none" /\ discOps' = <<>> /\ frame' = <<>> /\ lastOp' = "close"
  /\ UNCHANGED <<feedVars, histVars, tickVars>>

\* the state ws.close() leaves a socket in
Closed(st) ==
  CASE st = "connecting" -> "aborting"
    [] st = "open" -> "closing"
    [] OTHER -> st

\* the fields of the client that disconnect() reads and writes
Client ==
  [ws |-> ws, sock |-> sock, pingInterval |-> pingInterval,
   reconnectTimeout |-> reconnectTimeout, pings |-> pings, timers |-> timers,
   shouldReconnect |-> shouldReconnect]

\* disconnect() without the clearTimeout of the reconnect timer
disconnectKeepTimer(c) ==
  [client |->
     [ws |-> 0,
      sock |-> IF c.ws # 0 THEN [c.sock EXCEPT ![c.ws] = Closed(c.sock[c.ws])]
               ELSE c.sock,
      pingInterval |-> 0,
      reconnectTimeout |-> 0,
      pings |-> IF c.pingInterval # 0 THEN c.pings \ {c.pingInterval} ELSE c.pings,
      timers |-> c.timers,
      shouldReconnect |-> FALSE],
   ops |-> (IF c.pingInterval # 0 THEN <<"clearInterval">> ELSE <<>>)
           \o (IF c.ws # 0 THEN <<"close">> ELSE <<>>)]

\* disconnect() that keeps the handles and the socket it has released
disconnectKeepHandles(c) ==
  [client |->
     [ws |-> c.ws,
      sock |-> IF c.ws # 0 THEN [c.sock EXCEPT ![c.ws] = Closed(c.sock[c.ws])]
               ELSE c.sock,
      pingInterval |-> c.pingInterval,
      reconnectTimeout |-> c.reconnectTimeout,
      pings |-> IF c.pingInterval # 0 THEN c.pings \ {c.pingInterval} ELSE c.pings,
      timers |-> IF c.reconnectTimeout # 0 THEN c.timers \ {c.reconnectTimeout}
                 ELSE c.timers,
      shouldReconnect |-> FALSE],
   ops |-> (IF c.pingInterval # 0 THEN <<"clearInterval">> ELSE <<>>)
           \o (IF c.reconnectTimeout # 0 THEN <<"clearTimeout">> ELSE <<>>)
           \o (IF c.ws # 0 THEN <<"close">> ELSE <<>>)]

\* disconnect() on the client fields c: the fields it leaves and the calls it
\* makes, in order
disconnect(c) ==
  [client |->
     [ws |-> 0,
      sock |-> IF c.ws # 0 THEN [c.sock EXCEPT ![c.ws] = Closed(c.sock[c.ws])]
               ELSE c.sock,
      pingInterval |-> 0,
      reconnectTimeout |-> 0,
      pings |-> IF c.pingInterval # 0 THEN c.pings \ {c.pingInterval} ELSE c.pings,
      timers |-> IF c.reconnectTimeout # 0 THEN c.timers \ {c.reconnectTimeout}
                 ELSE c.timers,
      shouldReconnect |-> FALSE],
   ops |-> (IF c.pingInterval # 0 THEN <<"clearInterval">> ELSE <<>>)
           \o (IF c.reconnectTimeout # 0 THEN <<"clearTimeout">> ELSE <<>>)
           \o (IF c.ws # 0 THEN <<"close">> ELSE <<>>)]

\* the caller calls disconnect()
Disconnect ==
  LET r == disconnect(Client)
  IN /\ ws' = r.client.ws
     /\ sock' = r.client.sock
     /\ pingInterval' = r.client.pingInterval
     /\ reconnectTimeout' = r.client.reconnectTimeout
     /\ pings' = r.client.pings
     /\ timers' = r.client.timers
     /\ shouldReconnect' = r.client.shouldReconnect
     /\ discOps' = r.ops
     /\ NoNotify
     /\ sent' = "none" /\ frame' = <<>> /\ lastOp' = "disconnect"
     /\ UNCHANGED <<feedVars, histVars, tickVars>>

\* handleBookMessage
handleBookMessage(m) ==
  IF m.asset_id # TokenId
  THEN NoNotify /\ UNCHANGED <<orderBook, published>>
  ELSE \E ob \in BookOutcomes(m.bids, m.asks, m.timestamp) :
         /\ orderBook' = ob
         /\ published' = ob
         /\ Notify("true", ob)

\* handlePriceChange; a TypeError leaves the levels changed so far and is
\* swallowed by onMessage
handlePriceChange(m) ==
  \E r \in ApplyChanges(orderBook.bids, orderBook.asks, m.price_changes) :
    IF r.threw
    THEN /\ orderBook' = [orderBook EXCEPT !.bids = r.bids, !.asks = r.asks]
         /\ UNCHANGED published
         /\ NoNotify
    ELSE LET ob == [bids |-> r.bids, asks |-> r.asks,
                    lastUpdate |-> parseInt(m.timestamp)]
         IN /\ orderBook' = ob
            /\ published' = ob
            /\ Notify("true", ob)

\* the Trade handleTradeMessage builds from a last_trade_price frame
TradeOf(m) ==
  [timestamp |-> parseInt(m.timestamp), side |-> m.side,
   price |-> parseFloat(m.price), size |-> parseFloat(m.size),
   notional |-> Mul(parseFloat(m.price), parseFloat(m.size))]

\* handleTradeMessage
handleTradeMessage(m) ==
  /\ trades' = Unshift(trades, TradeOf(m), TradeCapacity)
  /\ UNCHANGED orderBook
  /\ published' = orderBook
  /\ Notify("true", orderBook)

\* the message event of socket s with frame m: onMessage
OnMessage(s, m) ==
  /\ sock[s] \in {"open", "closing"}
  /\ CASE m.event_type = "book" -> handleBookMessage(m) /\ UNCHANGED trades
       [] m.event_type = "last_trade_price" -> handleTradeMessage(m)
       [] m.event_type = "price_change" ->
            handlePriceChange(m) /\ UNCHANGED trades
       [] OTHER -> NoNotify /\ UNCHANGED <<orderBook, published, trades>>
  /\ sent' = "none" /\ discOps' = <<>> /\ frame' = <<m>> /\ lastOp' = "message"
  /\ UNCHANGED <<connVars, tickVars, histVars>>

(* ------------------------------ the ticker ------------------------------ *)
\* the evaluation ticker fires, EvaluationIntervalMs after its last firing
\* the callback of interval k fires when it is the next one due
Tick(k) ==
  /\ k \in DOMAIN tickers
  /\ \A j \in DOMAIN tickers : tickers[k] <= tickers[j]
  /\ ticks < MaxTicks
  /\ ticks' = ticks + 1
  /\ now' = tickers[k]
  /\ tickers' = [tickers EXCEPT ![k] = @ + EvaluationIntervalMs]
  /\ \E S \in evaluateStrategies(
                 [strategies |-> strategies, ledger |-> ledger,
                  simulatedTrades |-> simulatedTrades, fills |-> fills,
                  used |-> <<>>, evaluated |-> <<>>],
                 [ctx |-> currentContext,
                  book |-> IF currentOrderBook = "ref" THEN <<orderBook>> ELSE <<>>,
                  now |-> now']) :
       /\ strategies' = S.strategies
       /\ ledger' = S.ledger
       /\ simulatedTrades' = S.simulatedTrades
       /\ fills' = S.fills
       /\ tickBook' = S.used
       /\ evaluated' = S.evaluated
       /\ snapshot' = Retained(snapshot, ledger, S.ledger, Zero)
  /\ UNCHANGED <<currentOrderBook, currentContext, evaluationInterval,
                 initialContextCreated, calls, stopped, statusBar>>
  /\ notified' = "none" /\ sent' = "none" /\ discOps' = <<>> /\ frame' = <<>> /\ lastOp' = "tick"
  /\ UNCHANGED <<connVars, feedVars, histVars>>

(* ---------------------- calls on the PortfolioTracker -------------------- *)
\* the variables a call on the ledger leaves alone
nonLedgerVars == <<connVars, feedVars, histVars, currentOrderBook, currentContext,
                   strategies, evaluationInterval, initialContextCreated,
                   simulatedTrades, now, ticks, tickBook, tickers, calls,
                   stopped, evaluated, statusBar>>

\* the prices and sizes of the fills the ledger is given
FillPrices == {parseFloat(p) : p \in PriceStrs}
FillSizes == {parseFloat(z) : z \in SizeStrs}

\* portfolio.addTrade(tokenId, outcome, side, price, size, timestamp)
AddTrade(tokenId, side, price, size) ==
  /\ fills < MaxFills
  /\ ledger' = addTrade(ledger, tokenId, Outcome, side, price, size, now)
  /\ fills' = fills + 1
  /\ snapshot' = Retained(snapshot, ledger, ledger', size)
  /\ notified' = "none" /\ sent' = "none" /\ discOps' = <<>> /\ frame' = <<>>
  /\ lastOp' = "addTrade"
  /\ UNCHANGED nonLedgerVars

\* portfolio.setPrice(tokenId, price)
SetPrice(tokenId, price) ==
  /\ ledger' = setPrice(ledger, tokenId, price)
  /\ notified' = "none" /\ sent' = "none" /\ discOps' = <<>> /\ frame' = <<>>
  /\ lastOp' = "setPrice"
  /\ UNCHANGED <<nonLedgerVars, fills, snapshot>>

\* portfolio.clear()
Clear ==
  /\ ledger' = clear(ledger)
  /\ notified' = "none" /\ sent' = "none" /\ discOps' = <<>> /\ frame' = <<>>
  /\ lastOp' = "clear"
  /\ snapshot' = Retained(snapshot, ledger, ledger', Zero)
  /\ UNCHANGED <<nonLedgerVars, fills>>

\* portfolio.getSnapshot() by a caller that keeps what it is returned
GetSnapshot ==
  /\ snapshot' = <<[taken |-> getSnapshot(ledger, now),
                    seen |-> getSnapshot(ledger, now),
                    live |-> DOMAIN ledger.positions]>>
  /\ notified' = "none" /\ sent' = "none" /\ discOps' = <<>> /\ frame' = <<>>
  /\ lastOp' = "getSnapshot"
  /\ UNCHANGED <<nonLedgerVars, ledger, fills>>

(* --------------------- calls on the StrategySimulator ------------------- *)
\* the contexts start is called with
StartContexts(t) ==
  {[InitialContext(EmptyBook, t) EXCEPT !.currentPrice = p, !.bestAsk = p] :
     p \in FillPrices}

\* simulator.start(context)
Start(ctx) ==
  /\ calls < MaxCalls
  /\ calls' = calls + 1
  /\ stopped' = FALSE
  /\ currentContext' = <<ctx>>
  /\ strategies' = InitializeAll(strategies, ctx, now)
  /\ evaluationInterval' = calls + 1
  /\ tickers' = setInterval(tickers, calls + 1, now)
  /\ notified' = "none" /\ sent' = "none" /\ discOps' = <<>> /\ frame' = <<>>
  /\ lastOp' = "start"
  /\ UNCHANGED <<connVars, feedVars, histVars, tickVars, ledger, currentOrderBook,
                 initialContextCreated, snapshot, statusBar>>

\* simulator.stop()
Stop ==
  /\ calls < MaxCalls
  /\ calls' = calls + 1
  /\ stopped' = TRUE
  /\ tickers' = IF evaluationInterval # 0
                THEN clearInterval(tickers, evaluationInterval) ELSE tickers
  /\ evaluationInterval' = 0
  /\ strategies' = CleanupAll(strategies)
  /\ notified' = "none" /\ sent' = "none" /\ discOps' = <<>> /\ frame' = <<>>
  /\ lastOp' = "stop"
  /\ UNCHANGED <<connVars, feedVars, histVars, tickVars, ledger, currentOrderBook,
                 currentContext, initialContextCreated, snapshot, statusBar>>

(* ------------------------------- frames -------------------------------- *)
SeqsUpTo(S, n) == UNION {[1..k -> S] : k \in 0..n}

\* the timestamp string of a frame
TimestampStrs == {<<1, 0>>}

Frame(kind, asset, bidData, askData, changes, t) ==
  [event_type |-> kind, asset_id |-> asset, bids |-> bidData, asks |-> askData,
   price_changes |-> changes, timestamp |-> t]

\* book snapshots of the watched instrument over the summaries in sums, with
\* at most n levels, and one snapshot of another instrument
BookFramesOver(sums, n) ==
  {Frame("book", TokenId, p[1], p[2], <<>>, t) :
     p \in {q \in SeqsUpTo(sums, n) \X SeqsUpTo(sums, n) :
              Len(q[1]) + Len(q[2]) <= n},
     t \in TimestampStrs}
  \cup {Frame("book", OtherId, <<o>>, <<o>>, <<>>, t) :
          o \in {[price |-> <<1, 1>>, size |-> <<1, 0>>]}, t \in TimestampStrs}

\* price_change frames with at most n elements drawn from elems
PriceChangeFramesOver(elems, n) ==
  {Frame("price_change", TokenId, <<>>, <<>>, cs, t) :
     cs \in SeqsUpTo(elems, n), t \in TimestampStrs}

WatchedChanges == {c \in Changes : c.asset_id = TokenId}

OtherChange ==
  [isNull |-> FALSE, asset_id |-> OtherId, price |-> <<1, 1>>, size |-> <<1, 0>>,
   side |-> "BUY"]

\* the well-formed frames the order book is driven with
BookFrames == BookFramesOver(OrderSummaries, MaxLevels)
PriceChangeFrames ==
  PriceChangeFramesOver(WatchedChanges \cup {OtherChange}, MaxChanges)

(* ---------------- order book reconstruction on its own ----------------- *)
NextBook ==
  \/ Connect
  \/ \E s \in Socks : OnOpen(s)
  \/ \E s \in Socks, m \in BookFrames : OnMessage(s, m)
  \/ \E s \in Socks, m \in PriceChangeFrames : OnMessage(s, m)

SpecBook == Init /\ [][NextBook]_vars

(* ------------- price changes applied to an empty book -------------- *)
\* price_change frames of one delta each
DeltaFrames == PriceChangeFramesOver(WatchedChanges \cup {OtherChange}, 1)

NextDelta ==
  \/ Connect
  \/ \E s \in Socks : OnOpen(s)
  \/ \E s \in Socks, m \in DeltaFrames : OnMessage(s, m)

SpecDelta == Init /\ [][NextDelta]_vars

(* ------------------------- the ledger on its own ------------------------ *)
\* fills on two instruments; as in updateMarket, prices are set for the
\* watched instrument
NextLedger ==
  \/ \E t \in Assets, side \in {"BUY", "SELL"}, p \in FillPrices, z \in FillSizes :
       AddTrade(t, side, p, z)
  \/ \E p \in FillPrices : SetPrice(TokenId, p)
  \/ Clear

SpecLedger == Init /\ [][NextLedger]_vars

(* -------------------- the ledger and a snapshot of it ------------------- *)
NextSnapshot ==
  \/ \E side \in {"BUY", "SELL"}, p \in FillPrices, z \in FillSizes :
       AddTrade(TokenId, side, p, z)
  \/ \E p \in FillPrices : SetPrice(TokenId, p)
  \/ GetSnapshot

SpecSnapshot == Init /\ [][NextSnapshot]_vars

(* ------------------------ the feed client driven ------------------------ *)
\* a level of a frame: price p/10 and size z
Quote(p, z) == [price |-> <<p, 1>>, size |-> <<z, 0>>]

Delta(side, p, z) ==
  [isNull |-> FALSE, asset_id |-> TokenId, price |-> <<p, 1>>, size |-> <<z, 0>>,
   side |-> side]

\* a snapshot with both sides and a price change that resizes its ask
SnapshotFrame ==
  Frame("book", TokenId, <<Quote(1, 1)>>, <<Quote(2, 1)>>, <<>>, <<1, 0>>)

ResizeFrame ==
  Frame("price_change", TokenId, <<>>, <<>>, <<Delta("SELL", 2, 2)>>, <<2, 0>>)

\* a price change whose second element is a JSON null
BrokenFrame ==
  Frame("price_change", TokenId, <<>>, <<>>,
        <<Delta("SELL", 2, 0), NullChange>>, <<3, 0>>)

\* a price change that adds a bid
BidFrame ==
  Frame("price_change", TokenId, <<>>, <<>>, <<Delta("BUY", 1, 2)>>, <<4, 0>>)

ClientFrames == {SnapshotFrame, ResizeFrame, BidFrame}

\* the client with its caller: connect() once, disconnect() at any time and
\* any number of times, the socket and timer events in any order
NextClient ==
  \/ Connect
  \/ \E t \in Socks : ReconnectTimer(t)
  \/ \E s \in Socks : OnOpen(s)
  \/ \E p \in Socks : PingTick(p)
  \/ \E s \in Socks : OnClose(s)
  \/ Disconnect
  \/ \E s \in Socks, m \in ClientFrames : OnMessage(s, m)

SpecClient == Init /\ [][NextClient]_vars

\* connect() that re-arms the automatic reconnect
ConnectCallRearms ==
  /\ ConnectBody
  /\ shouldReconnect' = TRUE
  /\ UNCHANGED <<pingInterval, reconnectTimeout, pings, timers>>
  /\ NoNotify
  /\ sent' = "none" /\ discOps' = <<>> /\ frame' = <<>> /\ lastOp' = "connect"
  /\ UNCHANGED <<feedVars, histVars, tickVars>>

\* a caller of the client calls connect(), at any time and any number of
\* times
ConnectCall ==
  /\ ConnectBody
  /\ UNCHANGED <<pingInterval, reconnectTimeout, pings, timers, shouldReconnect>>
  /\ NoNotify
  /\ sent' = "none" /\ discOps' = <<>> /\ frame' = <<>> /\ lastOp' = "connect"
  /\ UNCHANGED <<feedVars, histVars, tickVars>>

\* the client as a class: connect() and disconnect() at any time, the socket
\* and timer events in any order
NextApi ==
  \/ ConnectCall
  \/ \E t \in Socks : ReconnectTimer(t)
  \/ \E s \in Socks : OnOpen(s)
  \/ \E p \in Socks : PingTick(p)
  \/ \E s \in Socks : OnClose(s)
  \/ Disconnect
  \/ \E s \in Socks : OnMessage(s, SnapshotFrame)

SpecApi == Init /\ [][NextApi]_vars

\* a reconnect timer that is pending fires: setTimeout callbacks are run
FairClient == SpecClient /\ WF_vars(\E t \in Socks : ReconnectTimer(t))

(* ------------------------- feed, handler and ticker --------------------- *)
Frames == {SnapshotFrame, ResizeFrame, BrokenFrame}

\* main() after its setup: the socket, timer and ticker events in any order
Next ==
  \/ Connect
  \/ \E t \in Socks : ReconnectTimer(t)
  \/ \E s \in Socks : OnOpen(s)
  \/ \E p \in Socks : PingTick(p)
  \/ \E s \in Socks : OnClose(s)
  \/ \E s \in Socks, m \in Frames : OnMessage(s, m)
  \/ \E k \in 1..MaxCalls : Tick(k)

Spec == Init /\ [][Next]_vars

\* an evaluation tick is due (and among the ticks that are followed)
TickDue == tickers # EmptyMap /\ ticks < MaxTicks

\* setInterval callbacks that are due are run: the evaluation ticker and the
\* keepalive ticker fire; nothing is assumed of the feed or the reconnect.
\* The first condition is weak fairness of the Tick steps, written with the
\* state predicate that enables them and the counter only they advance
FairTimers ==
  /\ Spec
  /\ ([]<>(~TickDue) \/ []<><<ticks' = ticks + 1>>_vars)
  /\ WF_vars(\E p \in Socks : PingTick(p))

(* ----------------------- frames that do not decode ---------------------- *)
\* text that is not JSON: JSON.parse throws and onMessage swallows the error
TextFrame == Frame("not JSON", TokenId, <<>>, <<>>, <<>>, <<0, 0>>)

\* a snapshot whose second bid has a price that is not a numeral
BadBookFrame ==
  Frame("book", TokenId,
        <<Quote(1, 1), [price |-> BadText, size |-> <<1, 0>>]>>,
        <<Quote(2, 1)>>, <<>>, <<5, 0>>)

\* a price change whose size is not a numeral, followed by a well-formed one
BadDeltaFrame ==
  Frame("price_change", TokenId, <<>>, <<>>,
        <<[isNull |-> FALSE, asset_id |-> TokenId, price |-> <<1, 1>>,
           size |-> BadText, side |-> "SELL"],
          Delta("BUY", 2, 1)>>,
        <<6, 0>>)

DecodeFrames ==
  {SnapshotFrame, ResizeFrame, BrokenFrame, TextFrame, BadBookFrame, BadDeltaFrame}

NextDecode ==
  \/ Connect
  \/ \E s \in Socks : OnOpen(s)
  \/ \E s \in Socks, m \in DecodeFrames : OnMessage(s, m)

SpecDecode == Init /\ [][NextDecode]_vars

(* ------------------------ the simulator on its own ---------------------- *)
\* a strategy addStrategy is given: a PollBuyStrategy firing on every tick, a
\* strategy whose evaluate throws, or a PollBuyStrategy subclass whose
\* onTradeExecuted throws; a strategy is named after its class
EngineStrategy(kind, enabled) ==
  [name |-> kind, enabled |-> enabled, kind |-> kind,
   intervalSeconds |-> 1, buySize |-> One, lastExecutionTime |-> 0,
   executionCount |-> 0, targetTokenId |-> <<>>,
   initialized |-> 0, cleanedUp |-> 0, lastFire |-> <<>>]

EngineStrategies ==
  {EngineStrategy(kind, enabled) :
     kind \in {"PollBuy", "Throws", "ThrowsOnFill"}, enabled \in BOOLEAN}

\* a simulator with one to MaxStrategies strategies added
InitEngine ==
  \E sts \in SeqsUpTo(EngineStrategies, MaxStrategies) :
    sts # <<>> /\ InitOf(sts)

\* the ticks the simulator on its own is followed for
TickEngine(k) == ticks < MaxEngineTicks /\ Tick(k)

NextEngine ==
  \/ \E ctx \in StartContexts(now) : Start(ctx)
  \/ Stop
  \/ \E k \in 1..MaxCalls : TickEngine(k)

SpecEngine == InitEngine /\ [][NextEngine]_vars

\* a simulator with one or more strategies that buy or sell on every tick
SellStrategies == {EngineStrategy("PollBuy", TRUE), EngineStrategy("Sells", TRUE)}

InitSell ==
  \E sts \in SeqsUpTo(SellStrategies, MaxStrategies) :
    sts # <<>> /\ InitOf(sts)

SpecSell == InitSell /\ [][NextEngine]_vars

\* simulator.addStrategy(strategy), while fewer than MaxStrategies are held
AddStrategy(st) ==
  /\ Len(strategies) < MaxStrategies
  /\ strategies' = Append(strategies, st)
  /\ notified' = "none" /\ sent' = "none" /\ discOps' = <<>> /\ frame' = <<>>
  /\ lastOp' = "addStrategy"
  /\ UNCHANGED <<connVars, feedVars, histVars, tickVars, ledger,
                 currentOrderBook, currentContext, evaluationInterval,
                 initialContextCreated, tickers, calls, stopped, snapshot,
                 statusBar>>

\* a simulator built with no strategy: addStrategy, start, stop and the ticks
\* in any order
NextAddStrategy ==
  \/ \E st \in EngineStrategies : AddStrategy(st)
  \/ \E ctx \in StartContexts(now) : Start(ctx)
  \/ Stop
  \/ \E k \in 1..MaxCalls : TickEngine(k)

\* new StrategySimulator(): no strategy added
InitAddStrategy == InitOf(<<>>)

SpecAddStrategy == InitAddStrategy /\ [][NextAddStrategy]_vars

(* ------------------------- a multiplexed feed --------------------------- *)
\* a delta of another instrument
OtherDelta(side, p, z) == [Delta(side, p, z) EXCEPT !.asset_id = OtherId]

\* a snapshot of another instrument
OtherBookFrame ==
  Frame("book", OtherId, <<Quote(2, 2)>>, <<Quote(1, 2)>>, <<>>, <<5, 0>>)

\* the deltas of a multiplexed feed: of the watched instrument and, at the
\* same prices, of another one
MuxChanges ==
  {Delta("SELL", 2, 2), Delta("SELL", 1, 1), Delta("BUY", 1, 2),
   Delta("BUY", 1, 0), OtherDelta("SELL", 2, 0), OtherDelta("BUY", 2, 1)}

MuxFrames ==
  {SnapshotFrame, OtherBookFrame}
    \cup PriceChangeFramesOver(MuxChanges, MaxMux)

NextMux ==
  \/ Connect
  \/ \E s \in Socks : OnOpen(s)
  \/ \E s \in Socks, m \in MuxFrames : OnMessage(s, m)

SpecMux == Init /\ [][NextMux]_vars

(* ------------- the feed of two instruments and the ticker --------------- *)
\* snapshots and price changes of one delta each, of two instruments
FreshFrames ==
  {SnapshotFrame, OtherBookFrame} \cup PriceChangeFramesOver(MuxChanges, 1)

\* the frames with the evaluation ticks of the simulator they start
NextFresh ==
  \/ Connect
  \/ \E s \in Socks : OnOpen(s)
  \/ \E s \in Socks, m \in FreshFrames : OnMessage(s, m)
  \/ \E k \in 1..MaxCalls : TickEngine(k)

SpecFresh == Init /\ [][NextFresh]_vars

(* --------------------------- the trade buffer --------------------------- *)
\* a last_trade_price frame
TradeFrame(side, price, size, t) ==
  [Frame("last_trade_price", TokenId, <<>>, <<>>, <<>>, t) EXCEPT
     !.bids = <<>>] @@ [side |-> side, price |-> price, size |-> size]

\* the trades buffer after the n trades stamped TradeCapacity - n + 1 ..
\* TradeCapacity, newest first
FilledTrades(n) ==
  [i \in 1..n |->
     TradeOf(TradeFrame("BUY", <<1, 1>>, <<1, 0>>, <<TradeCapacity + 1 - i, 0>>))]

\* a client whose buffer is empty, one short of full, or full
InitTrades ==
  /\ \E n \in {0, TradeCapacity - 1, TradeCapacity} : trades = FilledTrades(n)
  /\ ws = 0
  /\ sock = [s \in Socks |-> "free"]
  /\ pingInterval = 0
  /\ reconnectTimeout = 0
  /\ pings = {}
  /\ timers = {}
  /\ shouldReconnect = TRUE
  /\ orderBook = EmptyBook
  /\ notified = "none"
  /\ sent = "none"
  /\ discOps = <<>>
  /\ frame = <<>>
  /\ lastOp = "init"
  /\ ledger = EmptyLedger
  /\ fills = 0
  /\ currentContext = <<>>
  /\ currentOrderBook = "null"
  /\ evaluationInterval = 0
  /\ simulatedTrades = <<>>
  /\ strategies = <<PollBuyOfMain>>
  /\ initialContextCreated = FALSE
  /\ now = StartTime
  /\ ticks = 0
  /\ published = EmptyBook
  /\ tickBook = <<>>
  /\ tickers = EmptyMap
  /\ calls = 0
  /\ stopped = FALSE
  /\ evaluated = <<>>
  /\ snapshot = <<>>
  /\ statusBar = "none"
  /\ history = <<>>
  /\ maxSize = DefaultMaxSize
  /\ added = <<>>

\* the frames the feed sends next: a trade on either side at any price,
\* stamped after the newest trade held
NextTradeFrames ==
  LET t == IF trades = <<>> THEN TradeCapacity + 1 ELSE trades[1].timestamp[1] + 1
  IN IF t > TradeCapacity + MaxTradeFrames THEN {}
     ELSE {TradeFrame(side, p, <<1, 0>>, <<t, 0>>) :
             side \in {"BUY", "SELL"}, p \in PriceStrs}

NextTrades ==
  \/ Connect
  \/ \E s \in Socks : OnOpen(s)
  \/ \E s \in Socks, m \in NextTradeFrames : OnMessage(s, m)

SpecTrades == InitTrades /\ [][NextTrades]_vars

(* -------------------- trades of two instruments ------------------------- *)
\* the trade frames of the feed and the same frames of another instrument
OtherTradeFrames == {[m EXCEPT !.asset_id = OtherId] : m \in NextTradeFrames}

NextMuxTrades ==
  \/ Connect
  \/ \E s \in Socks : OnOpen(s)
  \/ \E s \in Socks, m \in NextTradeFrames \cup OtherTradeFrames : OnMessage(s, m)

SpecMuxTrades == Init /\ [][NextMuxTrades]_vars

(* ------------------ the feed across closes and reconnects --------------- *)
\* snapshots, price changes and trades of the watched instrument, with the
\* socket closing and the client reconnecting at any time
NextReconnect ==
  \/ Connect
  \/ \E t \in Socks : ReconnectTimer(t)
  \/ \E s \in Socks : OnOpen(s)
  \/ \E s \in Socks : OnClose(s)
  \/ \E s \in Socks, m \in ClientFrames \cup NextTradeFrames : OnMessage(s, m)

SpecReconnect == Init /\ [][NextReconnect]_vars

(* --------------------------- order book claims -------------------------- *)
\* consecutive levels are in strict price order: descending bids, ascending
\* asks; this excludes two levels with the same price
StrictlySorted(levels, isBid) ==
  \A i \in 1..(Len(levels) - 1) : ComesBefore(levels[i], levels[i + 1], isBid)

NoZeroSize(levels) == \A i \in 1..Len(levels) : ~StrictEq(levels[i].size, Zero)

\* the two sequences hold the same levels the same number of times
SameLevels(a, b) ==
  /\ Len(a) = Len(b)
  /\ \A i \in 1..Len(a) :
       Cardinality({j \in 1..Len(a) : a[j] = a[i]})
         = Cardinality({j \in 1..Len(b) : b[j] = a[i]})

\* C1: in every reachable state each side of the order book has no two
\* levels with the same price and no level of size 0, bids in descending and
\* asks in ascending price order.
C1_BookInvariant ==
  /\ StrictlySorted(orderBook.bids, TRUE)
  /\ StrictlySorted(orderBook.asks, FALSE)
  /\ NoZeroSize(orderBook.bids)
  /\ NoZeroSize(orderBook.asks)

\* C2: after handleBookMessage took a snapshot of the watched instrument the
\* bids are strictly descending, the asks strictly ascending (so no price
\* occurs twice on a side) and the book holds the levels of the snapshot and
\* nothing else.
C2_SnapshotReplaces ==
  (frame # <<>> /\ frame[1].event_type = "book" /\ frame[1].asset_id = TokenId)
    => /\ StrictlySorted(orderBook.bids, TRUE)
       /\ StrictlySorted(orderBook.asks, FALSE)
       /\ SameLevels(orderBook.bids, ParseLevels(frame[1].bids))
       /\ SameLevels(orderBook.asks, ParseLevels(frame[1].asks))

\* the side a delta (price, size) is required to leave, for a strictly
\* sorted side: the level at that price removed (size 0) or given the new
\* size, a new level placed behind the levels that come before it, and
\* every other level as it was
ExpectedSide(levels, price, size, isBid) ==
  LET new == [price |-> price, size |-> size]
      present == \E i \in 1..Len(levels) : levels[i].price = price
      k == Cardinality({i \in 1..Len(levels) : ComesBefore(levels[i], new, isBid)})
  IN IF size = Zero
     THEN SelectSeq(levels, LAMBDA l : l.price # price)
     ELSE IF present
     THEN [i \in 1..Len(levels) |->
             IF levels[i].price = price THEN new ELSE levels[i]]
     ELSE SubSeq(levels, 1, k) \o <<new>> \o SubSeq(levels, k + 1, Len(levels))

\* the required side after the deltas of a frame, in list order
RECURSIVE ExpectedAfter(_, _, _)
ExpectedAfter(levels, changes, isBid) ==
  IF changes = <<>> THEN levels
  ELSE LET c == Head(changes)
       IN IF c.asset_id = TokenId /\ (c.side = "BUY") = isBid
          THEN ExpectedAfter(ExpectedSide(levels, parseFloat(c.price),
                                          parseFloat(c.size), isBid),
                             Tail(changes), isBid)
          ELSE ExpectedAfter(levels, Tail(changes), isBid)

\* C3: a price-change delta applied to a sorted side removes the level at
\* its price when size = 0, replaces the size of that level when size > 0
\* (the number of levels unchanged), inserts a new level in sorted position
\* when no level has the price and size > 0, changes nothing when no level
\* has the price and size = 0, and leaves every other level as it was.
C3_DeltaApplication ==
  [][(/\ frame' # <<>>
      /\ frame'[1].event_type = "price_change"
      /\ StrictlySorted(orderBook.bids, TRUE)
      /\ StrictlySorted(orderBook.asks, FALSE))
       => /\ orderBook'.bids
               = ExpectedAfter(orderBook.bids, frame'[1].price_changes, TRUE)
          /\ orderBook'.asks
               = ExpectedAfter(orderBook.asks, frame'[1].price_changes, FALSE)]_vars

\* a delta has placed a bid in front of a bid that was already there
C3_Witness ==
  /\ frame # <<>>
  /\ frame[1].event_type = "price_change"
  /\ Len(frame[1].price_changes) = 1
  /\ frame[1].price_changes[1].asset_id = TokenId
  /\ frame[1].price_changes[1].side = "BUY"
  /\ Len(orderBook.bids) >= 2
  /\ orderBook.bids[1] = [price |-> parseFloat(frame[1].price_changes[1].price),
                          size |-> parseFloat(frame[1].price_changes[1].size)]

(* ----------------------------- ledger claims ---------------------------- *)
\* the sum of the totalCost of the positions held
HeldCost(L) ==
  SumOver([t \in DOMAIN L.positions |-> L.positions[t].totalCost],
          DOMAIN L.positions)

C5_PositionsLive ==
  \A t \in DOMAIN ledger.positions :
    /\ Gt(ledger.positions[t].shares, Zero)
    /\ StrictEq(ledger.positions[t].totalCost,
                Mul(ledger.positions[t].averagePrice, ledger.positions[t].shares))

\* the position of tokenId after addTrade on L at the current time
PositionAfter(L, tokenId, side, price, size) ==
  addTrade(L, tokenId, Outcome, side, price, size, now).positions[tokenId]

\* the ledger after BUY 2 @ 0.30 and BUY 3 @ 0.40 of one instrument
TwoBuys ==
  addTrade(addTrade(EmptyLedger, TokenId, Outcome, "BUY", <<3, 10>>, Num(2), 0),
           TokenId, Outcome, "BUY", <<2, 5>>, Num(3), 0)

\* C16: a BUY fill of (price, size) on a held instrument adds price * size to
\* the totalCost of the position and size to its shares, and makes
\* averagePrice the new totalCost over the new shares; on an instrument that
\* is not held it creates a position with shares = size, averagePrice = price
\* and totalCost = price * size.  BUY 2 @ 0.30 then BUY 3 @ 0.40 gives shares
\* 5, averagePrice 0.36 and totalCost 1.80.
C16_BuyFold ==
  /\ \A tokenId \in Assets, price \in FillPrices, size \in FillSizes :
       LET after == PositionAfter(ledger, tokenId, "BUY", price, size)
       IN IF tokenId \in DOMAIN ledger.positions
          THEN LET old == ledger.positions[tokenId]
               IN /\ after.totalCost = Add(old.totalCost, Mul(price, size))
                  /\ after.shares = Add(old.shares, size)
                  /\ after.averagePrice = Div(after.totalCost, after.shares)
          ELSE /\ after.shares = size
               /\ after.averagePrice = price
               /\ after.totalCost = Mul(price, size)
  /\ TwoBuys.positions[TokenId].shares = Num(5)
  /\ TwoBuys.positions[TokenId].averagePrice = <<9, 25>>
  /\ TwoBuys.positions[TokenId].totalCost = <<9, 5>>

\* BUY 1 @ 0.1 and BUY 2 @ 0.2 of the watched instrument were folded into one
\* position of 3 shares at the weighted average 1/6
C16_Witness ==
  /\ lastOp = "addTrade"
  /\ TokenId \in DOMAIN ledger.positions
  /\ ledger.positions[TokenId].shares = Num(3)
  /\ ledger.positions[TokenId].averagePrice = <<1, 6>>
  /\ ledger.positions[TokenId].totalCost = Half

\* C17: a SELL fill of (price, size) of an instrument held with shares >= size
\* adds (price - averagePrice) * size to realizedPnL and deletes the position
\* when no share is left; otherwise it takes size from the shares and
\* averagePrice * size from the totalCost of the position and leaves
\* averagePrice alone.  Selling 2 @ 0.50 from 5 shares at 0.36 gives
\* realizedPnL 0.28, shares 3 and totalCost 1.08.
C17_SellReduces ==
  /\ \A tokenId \in DOMAIN ledger.positions, price \in FillPrices,
        size \in FillSizes :
       LET old == ledger.positions[tokenId]
           L == addTrade(ledger, tokenId, Outcome, "SELL", price, size, now)
       IN Ge(old.shares, size)
          => /\ L.realizedPnL =
                  Add(ledger.realizedPnL, Mul(Sub(price, old.averagePrice), size))
             /\ IF Sub(old.shares, size) = Zero
                THEN tokenId \notin DOMAIN L.positions
                ELSE /\ tokenId \in DOMAIN L.positions
                     /\ L.positions[tokenId].shares = Sub(old.shares, size)
                     /\ L.positions[tokenId].totalCost =
                          Sub(old.totalCost, Mul(old.averagePrice, size))
                     /\ L.positions[tokenId].averagePrice = old.averagePrice
  /\ LET L == addTrade(TwoBuys, TokenId, Outcome, "SELL", Half, Num(2), 0)
     IN /\ L.realizedPnL = <<7, 25>>
        /\ L.positions[TokenId].shares = Num(3)
        /\ L.positions[TokenId].totalCost = <<27, 25>>
        /\ L.positions[TokenId].averagePrice = <<9, 25>>

\* a sale above cost left one share of the watched instrument and a gain
C17_Witness ==
  /\ lastOp = "addTrade"
  /\ TokenId \in DOMAIN ledger.positions
  /\ ledger.positions[TokenId].shares = One
  /\ Gt(ledger.realizedPnL, Zero)

\* C18: a SELL fill of an instrument that is not held, or of more shares
\* than are held, leaves the positions, totalCost and realizedPnL of the
\* ledger as they were.
C18_OversellNoOp ==
  \A tokenId \in Assets, price \in FillPrices, size \in FillSizes :
    LET L == addTrade(ledger, tokenId, Outcome, "SELL", price, size, now)
    IN (tokenId \notin DOMAIN ledger.positions
          \/ Lt(ledger.positions[tokenId].shares, size))
       => /\ L.positions = ledger.positions
          /\ L.totalCost = ledger.totalCost
          /\ L.realizedPnL = ledger.realizedPnL

\* one share of the watched instrument is held after a sale, so that a sale
\* of two exceeds it, and the other instrument is not held
C18_Witness ==
  /\ lastOp = "addTrade"
  /\ fills = MaxFills
  /\ DOMAIN ledger.positions = {TokenId}
  /\ ledger.positions[TokenId].shares = One
  /\ ledger.realizedPnL # Zero

\* the value of the positions at the marked prices, an instrument that was
\* never marked counting for nothing
MarkedValue(L) ==
  SumOver([t \in DOMAIN L.positions |->
             Mul(IF t \in DOMAIN L.currentPrices THEN L.currentPrices[t] ELSE Zero,
                 L.positions[t].shares)],
          DOMAIN L.positions)

\* C19: after every setPrice and every addTrade currentValue is the sum
\* over the positions held of the last marked price of the instrument times
\* the shares, and unrealizedPnL is currentValue - totalCost.
C19_MarkToMarket ==
  (lastOp \in {"addTrade", "setPrice"})
    => /\ ledger.currentValue = MarkedValue(ledger)
       /\ ledger.unrealizedPnL = Sub(ledger.currentValue, ledger.totalCost)

\* a position bought at 0.1 was marked at 0.2
C19_Witness ==
  /\ lastOp = "setPrice"
  /\ TokenId \in DOMAIN ledger.positions
  /\ Gt(ledger.currentValue, Zero)
  /\ Gt(ledger.unrealizedPnL, Zero)

(* ----------------------------- client claims ---------------------------- *)
AllFree == \A s \in Socks : sock[s] = "free"

\* C6: while disconnect() has not been called, a close event schedules
\* exactly one reconnect timer, the client is never left with no socket and
\* no pending reconnect, and a scheduled reconnect leads to a new connection
\* attempt (or to disconnect()).
C6_ReconnectFollowsClose ==
  /\ [][(lastOp' = "close" /\ shouldReconnect)
          => (timers = {} /\ Cardinality(timers') = 1)]_vars
  /\ []((shouldReconnect /\ lastOp # "init" /\ AllFree) => timers # {})
  /\ ((lastOp = "close" /\ shouldReconnect)
        ~> ((lastOp = "timer" /\ ws # 0 /\ sock[ws] = "connecting")
            \/ ~shouldReconnect))

\* the reconnect timer of a close has fired and a new socket is connecting
C6_Witness ==
  /\ lastOp = "timer"
  /\ shouldReconnect
  /\ timers = {}
  /\ ws # 0
  /\ sock[ws] = "connecting"

\* C7: once disconnect() has been called no keepalive ticker is live, no
\* reconnect timer is pending, no socket is connecting or open and no
\* reconnect timer fires; disconnect() makes its close call after its
\* clearInterval and clearTimeout calls.
C7_DisconnectQuiesces ==
  /\ ~shouldReconnect
       => /\ pings = {}
          /\ timers = {}
          /\ lastOp # "timer"
          /\ \A s \in Socks : sock[s] \notin {"connecting", "open"}
  /\ \A i \in 1..Len(discOps) : discOps[i] = "close" => i = Len(discOps)

\* the close event of the socket disconnect() released has been handled,
\* after a disconnect() that had a socket to close
C7_Witness ==
  /\ ~shouldReconnect
  /\ lastOp = "close"
  /\ AllFree
  /\ timers = {}

\* C8: once disconnect() has been called the update handler is not called.
C8_NoCallbackAfterDisconnect == ~shouldReconnect => notified = "none"

\* C9: in every reachable state of the client, disconnect() called on the
\* state that disconnect() leaves returns that same state and makes no call:
\* it cancels no timer and closes no socket.
C9_DisconnectIdempotent ==
  LET once == disconnect(Client)
      twice == disconnect(once.client)
  IN /\ twice.client = once.client
     /\ twice.ops = <<>>

\* a second disconnect() has run while the socket the first one closed is
\* still closing
C9_Witness ==
  /\ lastOp = "disconnect"
  /\ discOps = <<>>
  /\ ws = 0
  /\ \E s \in Socks : sock[s] \in {"closing", "aborting"}

(* ------------------------------ ticker claims --------------------------- *)
\* C10: a tick that computes a fill computes it from the order book as the
\* last frame that was applied to its end left it.
C10_TickUsesPublished ==
  (lastOp = "tick" /\ tickBook # <<>>) => tickBook[1] = published

(* ------------------------------ decode claims --------------------------- *)
\* a frame that fails to decode: text that is not JSON, or a price change
\* with a null element
Undecodable(m) ==
  \/ m.event_type = "not JSON"
  \/ /\ m.event_type = "price_change"
     /\ \E i \in 1..Len(m.price_changes) : m.price_changes[i].isNull

\* C11: a frame that fails to decode leaves the order book and the trade
\* buffer as they were before the frame.
C11_DecodeFailureDiscarded ==
  [][(frame' # <<>> /\ Undecodable(frame'[1]))
       => (orderBook' = orderBook /\ trades' = trades)]_vars

ValidLevels(levels) ==
  \A i \in 1..Len(levels) : ~IsNaN(levels[i].price) /\ ~IsNaN(levels[i].size)

\* C12: no level with an invalid price or an invalid size is stored in the
\* order book.
C12_NoInvalidLevel == ValidLevels(orderBook.bids) /\ ValidLevels(orderBook.asks)

(* ------------------------------ engine claims --------------------------- *)
\* the enabled strategies in the order they were added
RECURSIVE EnabledFrom(_, _)
EnabledFrom(sts, i) ==
  IF i > Len(sts) THEN <<>>
  ELSE (IF sts[i].enabled THEN <<i>> ELSE <<>>) \o EnabledFrom(sts, i + 1)

\* C13: a tick of a started simulator calls evaluate on every enabled
\* strategy and on no disabled one, whatever the evaluate or the fill
\* handler of any of them throws, and leaves every interval scheduled.
C13_FaultsIsolated ==
  [][(ticks' = ticks + 1 /\ currentContext # <<>>)
       => /\ evaluated' = EnabledFrom(strategies, 1)
          /\ DOMAIN tickers' = DOMAIN tickers
          /\ \A k \in DOMAIN tickers' : tickers'[k] >= now']_vars

\* two ticks have run on a simulator whose first strategy throws (from
\* evaluate or from its fill handler) and whose second strategy is enabled
C13_Witness ==
  /\ lastOp = "tick" /\ ticks >= 2
  /\ Len(strategies) = 2
  /\ strategies[1].enabled /\ strategies[1].kind \in {"Throws", "ThrowsOnFill"}
  /\ strategies[2].enabled
  /\ evaluated = <<1, 2>>

\* C14: once stop() has returned, and until start() is called again, no
\* evaluation tick runs: no evaluate call, no simulated trade, no fill.
C14_NoTickAfterStop ==
  [][stopped => /\ ticks' = ticks
                /\ simulatedTrades' = simulatedTrades
                /\ fills' = fills]_vars

\* C15: over the start() and stop() calls made, initialize is called at most
\* once on an enabled strategy and never on a disabled one, and cleanup at
\* most once on any strategy.
C15_LifecycleOnce ==
  \A i \in 1..Len(strategies) :
    /\ strategies[i].initialized <= (IF strategies[i].enabled THEN 1 ELSE 0)
    /\ strategies[i].cleanedUp <= 1

(* ----------------------------- snapshot claims -------------------------- *)
\* C20: a snapshot that getSnapshot returned holds what it held when it was
\* returned, whatever addTrade and setPrice calls follow.
C20_SnapshotImmutable ==
  snapshot # <<>> => snapshot[1].seen = snapshot[1].taken

(* -------------------------- execution price claims ---------------------- *)
\* the sizes priced
RequestSizes == {Num(k) : k \in 1..MaxRequest}

\* the side of the book a trade consumes
ConsumedSide(ob, side) == IF side = "BUY" THEN ob.asks ELSE ob.bids

\* the levels in the order of consumption: asks by rising price for a BUY,
\* bids by falling price for a SELL
Cheapest(levels, side) ==
  CHOOSE s \in {[i \in 1..Len(levels) |-> levels[f[i]]] :
                  f \in Permutations(1..Len(levels))} :
    \A i \in 1..Len(s) - 1 :
      IF side = "BUY" THEN Le(s[i].price, s[i + 1].price)
      ELSE Ge(s[i].price, s[i + 1].price)

\* the size of the first i levels together
RECURSIVE DepthUpTo(_, _)
DepthUpTo(levels, i) ==
  IF i = 0 THEN Zero ELSE Add(DepthUpTo(levels, i - 1), levels[i].size)

\* what a trade of size takes from level i: the level up to its size, until
\* the size is reached
Taken(levels, size, i) ==
  LET before == DepthUpTo(levels, i - 1)
      left == Sub(size, before)
  IN IF Le(left, Zero) THEN Zero
     ELSE IF Lt(left, levels[i].size) THEN left ELSE levels[i].size

\* the sum over the first i levels of what is taken times the level price
RECURSIVE CostUpTo(_, _, _)
CostUpTo(levels, size, i) ==
  IF i = 0 THEN Zero
  ELSE Add(CostUpTo(levels, size, i - 1),
           Mul(Taken(levels, size, i), levels[i].price))

\* the execution prices of a trade without price against the order book ob
ExecutionPrices(ob, side, size) ==
  {e.averagePrice : e \in calculateExecutionPrice(<<ob>>, <<>>, side, size)}

\* asks (0.40, 2) and (0.45, 3)
TwoAsks ==
  [EmptyBook EXCEPT !.asks = <<[price |-> <<2, 5>>, size |-> Num(2)],
                               [price |-> <<9, 20>>, size |-> Num(3)]>>]

\* C21: a trade without price whose size is at most the depth of the side
\* it consumes executes at the sum of taken size times level price over the
\* levels, cheapest first for a BUY and highest first for a SELL, divided by
\* the size.  Asks (0.40, 2), (0.45, 3) and BUY 4 give 0.425.
C21_WalkTheBook ==
  /\ \A side \in {"BUY", "SELL"}, size \in RequestSizes :
       LET levels == Cheapest(ConsumedSide(orderBook, side), side)
       IN Le(size, DepthUpTo(levels, Len(levels)))
          => ExecutionPrices(orderBook, side, size)
               = {Div(CostUpTo(levels, size, Len(levels)), size)}
  /\ ExecutionPrices(TwoAsks, "BUY", Num(4)) = {<<17, 40>>}

\* a BUY of 2 takes one share at 0.1 and one at 0.2
C21_Witness ==
  /\ Len(orderBook.asks) = 2
  /\ orderBook.asks[1] = [price |-> <<1, 10>>, size |-> One]
  /\ orderBook.asks[2].price = <<1, 5>>
  /\ ExecutionPrices(orderBook, "BUY", Num(2)) = {<<3, 20>>}

\* the best price of a side: the lowest ask, the highest bid
BestOf(levels, side) ==
  LET prices == {levels[i].price : i \in 1..Len(levels)}
  IN CHOOSE p \in prices :
       \A q \in prices : IF side = "BUY" THEN Le(p, q) ELSE Ge(p, q)

\* asks (0.50, 1)
OneAsk == [EmptyBook EXCEPT !.asks = <<[price |-> Half, size |-> One]>>]

\* C22: a trade without price whose size exceeds the depth of the side it
\* consumes takes every level in full and the rest at the best price of the
\* side.  Asks (0.50, 1) and BUY 3 give 0.50.
C22_BeyondDepth ==
  /\ \A side \in {"BUY", "SELL"}, size \in RequestSizes :
       LET levels == ConsumedSide(orderBook, side)
           depth == DepthUpTo(levels, Len(levels))
       IN (levels # <<>> /\ Gt(size, depth))
          => ExecutionPrices(orderBook, side, size)
               = {Div(Add(CostUpTo(levels, depth, Len(levels)),
                          Mul(Sub(size, depth), BestOf(levels, side))),
                      size)}
  /\ ExecutionPrices(OneAsk, "BUY", Num(3)) = {Half}

\* asks of depth 2 at two prices: a BUY of 4 takes both levels and two more
\* shares at 0.1
C22_Witness ==
  /\ Len(orderBook.asks) = 2
  /\ orderBook.asks[1] = [price |-> <<1, 10>>, size |-> One]
  /\ orderBook.asks[2] = [price |-> <<1, 5>>, size |-> One]
  /\ ExecutionPrices(orderBook, "BUY", Num(4)) = {<<1, 8>>}

(* ------------------------------ PollBuy claims -------------------------- *)
\* the times of the evaluations that may follow
EvalTimes == {now + k * EvaluationIntervalMs : k \in 0..MaxTicks}

\* the enabled PollBuy strategies that start has initialized
StartedPollBuys ==
  {i \in 1..Len(strategies) :
     /\ strategies[i].kind = "PollBuy" /\ strategies[i].enabled
     /\ strategies[i].initialized > 0}

\* a BUY intent and nothing else
IsBuyIntent(trade) == trade # <<>> /\ trade[1].side = "BUY"

\* C23: a PollBuy strategy with intervalSeconds = 15 has returned a BUY
\* intent once it has been evaluated after initialize, and once it has
\* fired returns no intent earlier than 15000 ms after its last fire.
C23_FiresAtFirstEvaluation ==
  \A i \in StartedPollBuys :
    LET st == strategies[i]
    IN st.intervalSeconds = 15
       => /\ (i \in {evaluated[j] : j \in 1..Len(evaluated)})
               => st.lastFire # <<>>
          /\ st.lastFire # <<>>
               => \A t \in EvalTimes :
                    t - st.lastFire[1] < 15000
                      => evaluate(st, currentContext[1], t).trade = <<>>

\* C24: an evaluation of an enabled PollBuy strategy at time t returns one
\* BUY intent if and only if intervalSeconds * 1000 ms have passed since its
\* previous fire (a strategy that has not fired is due), and only an
\* evaluation that fires changes the time the interval is measured from.
C24_IntervalFromPreviousFire ==
  \A i \in StartedPollBuys, t \in EvalTimes :
    LET st == strategies[i]
        r == evaluate(st, currentContext[1], t)
        due == st.lastFire = <<>>
                 \/ t - st.lastFire[1] >= st.intervalSeconds * 1000
    IN /\ IsBuyIntent(r.trade) <=> due
       /\ r.trade = <<>> => r.strategy = st

(* --------------------------- multiplexing claims ------------------------ *)
\* the deltas of a frame that are of the watched instrument
WatchedOf(changes) == SelectSeq(changes, LAMBDA c : c.asset_id = TokenId)

\* C25: a book snapshot of another instrument leaves both sides of the
\* order book as they were, and a price_change frame leaves them as its
\* deltas of the watched instrument alone make them.
C25_OtherInstrumentIgnored ==
  [][frame' # <<>>
       => LET m == frame'[1]
          IN /\ (m.event_type = "book" /\ m.asset_id # TokenId)
                  => /\ orderBook'.bids = orderBook.bids
                     /\ orderBook'.asks = orderBook.asks
             /\ m.event_type = "price_change"
                  => \E r \in ApplyChanges(orderBook.bids, orderBook.asks,
                                           WatchedOf(m.price_changes)) :
                       /\ orderBook'.bids = r.bids
                       /\ orderBook'.asks = r.asks]_vars

\* a frame resized the watched ask at 0.2 and carried the removal of the ask
\* at 0.2 of another instrument: the ask is there with the new size
C25_Witness ==
  /\ frame # <<>>
  /\ frame[1].event_type = "price_change"
  /\ frame[1].price_changes = <<Delta("SELL", 2, 2), OtherDelta("SELL", 2, 0)>>
  /\ orderBook.asks = <<[price |-> <<1, 5>>, size |-> Num(2)]>>
  /\ Len(orderBook.bids) = 1

(* ---------------------------- trade buffer claims ----------------------- *)
\* C26: the trades buffer holds at most TradeCapacity trades; a
\* last_trade_price frame puts its trade at the front, keeps the trades held
\* behind it in their order, and evicts only the oldest one when the buffer
\* was full.
C26_TradesNewestFirst ==
  [][(frame' # <<>> /\ frame'[1].event_type = "last_trade_price")
       => /\ Len(trades') <= TradeCapacity
          /\ Len(trades') = IF Len(trades) < TradeCapacity THEN Len(trades) + 1
                            ELSE TradeCapacity
          /\ trades'[1] = TradeOf(frame'[1])
          /\ \A i \in 2..Len(trades') : trades'[i] = trades[i - 1]]_vars

\* two trades arrived at a full buffer: the two oldest are gone
C26_Witness ==
  /\ Len(trades) = TradeCapacity
  /\ trades[1].timestamp = Num(TradeCapacity + 2)
  /\ trades[1].side = "SELL"
  /\ trades[TradeCapacity].timestamp = Num(3)

(* ------------------------------ timer claims ---------------------------- *)
\* the socket the client holds is open
FeedOpen == ws # 0 /\ sock[ws] = "open"

\* C27: whatever the feed does (closed with the reconnect pending,
\* connecting, open and silent), a started simulator goes on firing its
\* evaluation ticks (it fires every tick that is followed), and a client
\* whose socket is open goes on sending PING until the socket is closed.
C27_TimersIndependent ==
  /\ (tickers # EmptyMap) ~> (ticks = MaxTicks)
  /\ FeedOpen ~> (sent = "PING" \/ ~FeedOpen)

\* ticks have fired while the socket was closed and the reconnect pending
C27_Witness ==
  /\ lastOp = "tick"
  /\ ticks >= 2
  /\ AllFree
  /\ timers # {}
  /\ tickers # EmptyMap

(* --------------------------- connection status -------------------------- *)
\* the transport is closed: no socket, with the reconnect pending, or the
\* client's socket still connecting
ReconnectPending == AllFree /\ timers # {}
Connecting == ws # 0 /\ sock[ws] = "connecting"

\* C28: once the handler has been notified, the connected flag of the most
\* recent notification is false whenever the transport is closed (reconnect
\* pending or connecting) and true whenever the client's socket is open (and
\* so subscribed)
C28_FlagFollowsTransport ==
  statusBar # "none" =>
    /\ (ReconnectPending \/ Connecting) => statusBar = "false"
    /\ FeedOpen => statusBar = "true" /\ pingInterval = ws

\* the feed came back: the socket opened by a reconnect is open and
\* subscribed, after the close of the socket that delivered a book
C28_Witness ==
  /\ lastOp = "open" /\ FeedOpen /\ statusBar = "true" /\ sent = "subscribe"
  /\ published # EmptyBook

(* ------------------------------ executed fills -------------------------- *)
\* C29: every fill the ledger has applied has its SimulatedTrade recorded,
\* also when onTradeExecuted of the strategy throws: the ledger has applied
\* as many fills as there are SimulatedTrades (fewer than the capacity of
\* the list are made)
C29_FillsAreRecorded == fills = Len(simulatedTrades)

(* ----------------------------- fresh prices ----------------------------- *)
\* the highest price of the levels (bids) and the lowest (asks)
HighestOf(levels) ==
  LET ps == {levels[i].price : i \in 1..Len(levels)}
  IN CHOOSE p \in ps : \A q \in ps : Ge(p, q)
LowestOf(levels) ==
  LET ps == {levels[i].price : i \in 1..Len(levels)}
  IN CHOOSE p \in ps : \A q \in ps : Le(p, q)

\* the mid of the two best prices of ob, or the best price of its only side
MidOrSingle(ob) ==
  IF Len(ob.bids) > 0 /\ Len(ob.asks) > 0
  THEN Div(Add(HighestOf(ob.bids), LowestOf(ob.asks)), Num(2))
  ELSE IF Len(ob.asks) > 0 THEN LowestOf(ob.asks) ELSE HighestOf(ob.bids)

\* the started simulator holds the best prices of the order book and the
\* ledger marks the watched instrument at their mid (or the only side)
HoldsBestOf(ob) ==
  /\ currentContext # <<>>
  /\ Len(ob.bids) > 0 => currentContext[1].bestBid = HighestOf(ob.bids)
  /\ Len(ob.asks) > 0 => currentContext[1].bestAsk = LowestOf(ob.asks)
  /\ Len(ob.bids) + Len(ob.asks) > 0 =>
       /\ TokenId \in DOMAIN ledger.currentPrices
       /\ ledger.currentPrices[TokenId] = MidOrSingle(ob)

\* C30: after every feed update the handler of a started simulator was
\* given, the context holds the best bid and the best ask of the order book
\* it was given and the ledger marks the watched instrument at their mid (or
\* at the single side there is); the context and the mark change in no
\* other step, so a tick evaluates with the prices of the latest update
C30_FreshPrices ==
  /\ []((notified # "none" /\ initialContextCreated) => HoldsBestOf(orderBook))
  /\ [][notified' = "none" =>
          /\ currentContext' = currentContext
          /\ ledger'.currentPrices = ledger.currentPrices]_vars

\* a price change moved the best ask of a started simulator below the ask of
\* the snapshot that started it
C30_Witness ==
  /\ notified = "true" /\ initialContextCreated /\ lastOp = "message"
  /\ frame # <<>> /\ frame[1].event_type = "price_change"
  /\ Len(orderBook.bids) > 0 /\ Len(orderBook.asks) > 1
  /\ currentContext # <<>> /\ currentContext[1].bestAsk = LowestOf(orderBook.asks)
  /\ ticks > 0

(* ------------------------- ticks without a full book -------------------- *)
\* the order book the client holds has a side with no level
OneSided == Len(orderBook.bids) = 0 \/ Len(orderBook.asks) = 0

\* C31: a tick that runs while the order book has no level on one of its
\* sides (before the first full book, or after a later frame emptied a side)
\* calls evaluate on no strategy and computes no fill
C31_NoTickWithoutFullBook ==
  (lastOp = "tick" /\ OneSided) => evaluated = <<>> /\ tickBook = <<>>

(* ------------------------- keepalive and reconnect ---------------------- *)
\* C32: while the transport is closed (reconnect pending, or the client's
\* socket connecting) no keepalive ticker is live, and whatever connect(),
\* open, close, reconnect-timer and disconnect() events occur, at most one
\* keepalive ticker is live and at most one reconnect timer is pending
C32_OneKeepalive ==
  /\ (ReconnectPending \/ Connecting) => pings = {}
  /\ Cardinality(pings) <= 1
  /\ Cardinality(timers) <= 1

(* ------------------------------ PriceHistory ---------------------------- *)
\* array.slice(start) with a start that may be negative
SliceFrom(h, start) ==
  LET len == Len(h)
      from == IF start < 0 THEN (IF len + start < 0 THEN 0 ELSE len + start)
              ELSE (IF start > len THEN len ELSE start)
  IN SubSeq(h, from + 1, len)

\* the PricePoint add pushes
PricePoint(price, bestBid, bestAsk, timestamp) ==
  [timestamp |-> timestamp, price |-> price, bestBid |-> bestBid,
   bestAsk |-> bestAsk, spread |-> Sub(bestAsk, bestBid)]

\* add that evicts nothing
addKeepAll(h, size, pt) == Append(h, pt)

\* add: push, then shift when the length exceeds maxSize
add(h, size, pt) ==
  LET pushed == Append(h, pt)
  IN IF Len(pushed) > size THEN Tail(pushed) ELSE pushed

\* the first n points
getFirst(h, n) == SubSeq(h, 1, IF n > Len(h) THEN Len(h) ELSE n)

\* getLast: history.slice(-n)
getLast(h, n) == SliceFrom(h, 0 - n)

\* recent.reduce((acc, p) => acc + p.price, 0)
RECURSIVE SumPrices(_)
SumPrices(pts) ==
  IF pts = <<>> THEN Zero
  ELSE Add(SumPrices(SubSeq(pts, 1, Len(pts) - 1)), pts[Len(pts)].price)

\* getMovingAverage over the oldest points held
getMovingAverageOfFirst(h, period) ==
  IF Len(h) < period THEN <<>>
  ELSE <<Div(SumPrices(getFirst(h, period)), Num(period))>>

\* getMovingAverage (<<>> for null)
getMovingAverage(h, period) ==
  IF Len(h) < period THEN <<>>
  ELSE <<Div(SumPrices(getLast(h, period)), Num(period))>>

\* history.add(price, bestBid, bestAsk, timestamp); the calls are stamped
\* 1, 2, ...
HistoryAdd(price, bestBid, bestAsk) ==
  /\ Len(added) < MaxAdds
  /\ LET pt == PricePoint(price, bestBid, bestAsk, Len(added) + 1)
     IN /\ history' = add(history, maxSize, pt)
        /\ added' = Append(added, pt)
  /\ UNCHANGED maxSize
  /\ notified' = "none" /\ sent' = "none" /\ discOps' = <<>> /\ frame' = <<>>
  /\ lastOp' = "add"
  /\ UNCHANGED <<connVars, feedVars, handlerVars, tickVars>>

\* new PriceHistory(maxSize) with a capacity of 0 to MaxCapacity
InitHistory ==
  /\ maxSize \in 0..MaxCapacity
  /\ history = <<>>
  /\ added = <<>>
  /\ ws = 0
  /\ sock = [s \in Socks |-> "free"]
  /\ pingInterval = 0
  /\ reconnectTimeout = 0
  /\ pings = {}
  /\ timers = {}
  /\ shouldReconnect = TRUE
  /\ trades = <<>>
  /\ orderBook = EmptyBook
  /\ notified = "none"
  /\ sent = "none"
  /\ discOps = <<>>
  /\ frame = <<>>
  /\ lastOp = "init"
  /\ ledger = EmptyLedger
  /\ fills = 0
  /\ currentContext = <<>>
  /\ currentOrderBook = "null"
  /\ evaluationInterval = 0
  /\ simulatedTrades = <<>>
  /\ strategies = <<PollBuyOfMain>>
  /\ initialContextCreated = FALSE
  /\ now = StartTime
  /\ ticks = 0
  /\ published = EmptyBook
  /\ tickBook = <<>>
  /\ tickers = EmptyMap
  /\ calls = 0
  /\ stopped = FALSE
  /\ evaluated = <<>>
  /\ snapshot = <<>>
  /\ statusBar = "none"

\* the points a history is given: a price with the bid at it and the ask at
\* or above it
NextHistory ==
  \E price \in FillPrices, bestAsk \in FillPrices :
    Le(price, bestAsk) /\ HistoryAdd(price, price, bestAsk)

SpecHistory == InitHistory /\ [][NextHistory]_vars

\* the smaller of two naturals
Smaller(a, b) == IF a < b THEN a ELSE b

\* C33: after any add calls on a PriceHistory of capacity N the history
\* holds at most N points: the last min(count, N) points added, in the order
\* they were added; an add beyond the capacity evicts the oldest point only
C33_KeepsMostRecent ==
  LET count == Len(added)
      kept == Smaller(count, maxSize)
  IN /\ Len(history) = kept
     /\ Len(history) <= maxSize
     /\ \A i \in 1..kept : history[i] = added[count - kept + i]

\* a full history of two or more points has evicted its oldest point
C33_Witness ==
  /\ lastOp = "add"
  /\ maxSize >= 2
  /\ Len(added) > maxSize
  /\ Len(history) = maxSize
  /\ history[1] = added[Len(added) - maxSize + 1]
  /\ history[1].timestamp > 1

\* the periods a moving average is asked for
MaxPeriod == 4
Periods == 1..MaxPeriod

\* the mean of the prices of the last period points added
RECURSIVE SumOfAdded(_, _)
SumOfAdded(from, to) ==
  IF from > to THEN Zero ELSE Add(added[from].price, SumOfAdded(from + 1, to))
MeanOfLastAdded(period) ==
  Div(SumOfAdded(Len(added) - period + 1, Len(added)), Num(period))

\* C34: getMovingAverage(period) returns null when the history holds fewer
\* than period points and otherwise the arithmetic mean of the prices of the
\* last period points added
C34_MovingAverage ==
  \A period \in Periods :
    getMovingAverage(history, period)
      = IF Len(history) < period THEN <<>> ELSE <<MeanOfLastAdded(period)>>

\* a history that has evicted a point holds two points of different prices:
\* the average over 2 is their mean and the average over 3 is null
C34_Witness ==
  /\ Len(history) = 2
  /\ Len(added) > 2
  /\ history[1].price # history[2].price
  /\ added[Len(added) - 2].price # history[1].price
  /\ getMovingAverage(history, 2) = <<Div(Add(history[1].price, history[2].price), Num(2))>>
  /\ getMovingAverage(history, 3) = <<>>

(* -------------------------- state across reconnects --------------------- *)
\* C35: a close of the transport, the reconnect timer and the re-open leave
\* the order book and the trade buffer as they were, and a price change that
\* is the first frame after the open is applied to the book held since
\* before the close
C35_StateSurvivesReconnect ==
  [][/\ lastOp' \in {"close", "timer", "open"}
          => orderBook' = orderBook /\ trades' = trades
     /\ (lastOp = "open" /\ frame' # <<>>
          /\ frame'[1].event_type = "price_change")
          => /\ orderBook'.bids
                  = ExpectedAfter(orderBook.bids, frame'[1].price_changes, TRUE)
             /\ orderBook'.asks
                  = ExpectedAfter(orderBook.asks, frame'[1].price_changes, FALSE)
             /\ trades' = trades]_vars

\* a socket has opened while the client holds a book and trades: frames
\* reach the client through an open socket only, so they are those of the
\* connection before the close
C35_Witness ==
  /\ lastOp = "open"
  /\ ws # 0 /\ sock[ws] = "open"
  /\ trades # <<>>
  /\ Len(orderBook.bids) = 1 /\ Len(orderBook.asks) = 1
  /\ orderBook.asks[1].size = Num(2)

(* --------------------------- reconnect suppression ---------------------- *)
\* C36: once disconnect() has been called the automatic reconnect stays
\* off: no later step, a connect() by the caller included, turns it on
\* again, and a close event then schedules no reconnect timer
C36_SuppressionPermanent ==
  [][/\ ~shouldReconnect => ~shouldReconnect'
     /\ (~shouldReconnect /\ lastOp' = "close")
          => timers' = timers /\ reconnectTimeout' = reconnectTimeout]_vars

\* after disconnect() the caller connected again (the client holds a socket
\* once more) and that socket has closed with no reconnect timer pending
C36_Witness ==
  /\ ~shouldReconnect
  /\ lastOp = "close"
  /\ ws # 0 /\ sock[ws] = "free"
  /\ statusBar = "false"
  /\ timers = {}

(* ------------------------ trades of other instruments ------------------- *)
\* C37: a last_trade_price frame whose asset id is not the watched
\* instrument leaves the trade buffer as it was
C37_OtherTradesIgnored ==
  [][(frame' # <<>> /\ frame'[1].event_type = "last_trade_price"
      /\ frame'[1].asset_id # TokenId) => trades' = trades]_vars

(* ----------------------- strategies added after start ------------------- *)
\* C38: every strategy a tick calls evaluate on has had initialize called
\* before, whatever the order of addStrategy, start and the ticks
C38_InitializedBeforeEvaluate ==
  \A i \in 1..Len(evaluated) : strategies[evaluated[i]].initialized >= 1

(* ----------------------------- fill notification ------------------------ *)
\* the strategies whose evaluate returned an intent on the tick just run
FiredNow ==
  {i \in 1..Len(strategies) :
     lastOp = "tick" /\ strategies[i].lastFire = <<now>>}

\* C39: onTradeExecuted for an executed intent is called on the strategy
\* whose evaluate returned the intent, also when two strategies of the
\* simulator have the same name
C39_FillGoesToOwner ==
  \A i \in FiredNow : NotifiedStrategy(strategies, strategies[i].name) = i

(* ------------------------------ rejected sells -------------------------- *)
\* the shares the SimulatedTrades recorded add up to: bought less sold
RECURSIVE NetSize(_)
NetSize(sim) ==
  IF sim = <<>> THEN Zero
  ELSE Add(IF sim[1].side = "BUY" THEN sim[1].size ELSE Neg(sim[1].size),
           NetSize(Tail(sim)))

\* the shares of the watched instrument the ledger holds
HeldShares ==
  IF TokenId \in DOMAIN ledger.positions THEN ledger.positions[TokenId].shares
  ELSE Zero

\* C40: the SimulatedTrades recorded are the fills the ledger applied (a SELL
\* the ledger rejected for exceeding the shares held is not recorded): the
\* shares bought less the shares sold in the SimulatedTrades are the shares
\* the ledger holds
C40_RecordedFillsApplied == StrictEq(NetSize(simulatedTrades), HeldShares)

====
